---- MODULE Spec2Model ----
(***************************************************************************)
(* Model of the generated-code validation pipeline                         *)
(* (agents/validation: workflow.py, setup.py, action_map.py, build.py,     *)
(* test.py).  One run of validate_generated_code is a sequential process;  *)
(* every external command, model call and file-system step is one action   *)
(* whose outcome is chosen by the environment.                             *)
(***************************************************************************)
EXTENDS Integers, Sequences, FiniteSets, TLC

(***************************************************************************)
(* Bounds of the model.                                                    *)
(***************************************************************************)
MaxActions == 2
MaxParams == 2
MaxPkgs == 2

(***************************************************************************)
(* Python values.  None is the empty tuple, Some(x) a one-element tuple.   *)
(* Texts are tuples tagged "str" so that texts of different origin stay    *)
(* distinguishable; the empty text carries no origin.                      *)
(***************************************************************************)
None == <<>>
Some(x) == <<x>>
EmptyStr == <<"str">>
Text(origin, detail) == <<"str", origin, detail>>
PyBytes == <<"bytes">>
IsStr(v) == Len(v) >= 1 /\ v[1] = "str"

(***************************************************************************)
(* Strings that the code parses or compares are sequences of characters.   *)
(***************************************************************************)
Digits == <<"0", "1", "2", "3", "4", "5", "6", "7", "8", "9">>
DigitSet == {Digits[i] : i \in 1..10}
DigitVal(c) == (CHOOSE i \in 1..10 : Digits[i] = c) - 1

RECURSIVE IntToStr(_)
IntToStr(n) ==
  IF n < 10 THEN <<Digits[n + 1]>>
  ELSE IntToStr(n \div 10) \o <<Digits[(n % 10) + 1]>>

\* str.strip(): drop leading and trailing blanks
RECURSIVE LStrip(_)
LStrip(s) == IF s # <<>> /\ Head(s) = " " THEN LStrip(Tail(s)) ELSE s
RECURSIVE RStrip(_, _)
RStrip(s, c) ==
  IF s # <<>> /\ s[Len(s)] = c THEN RStrip(SubSeq(s, 1, Len(s) - 1), c) ELSE s
Strip(s) == RStrip(LStrip(s), " ")

\* int(s): the value, or -1 for ValueError
RECURSIVE DecVal(_)
DecVal(s) == IF s = <<>> THEN 0 ELSE 10 * DecVal(SubSeq(s, 1, Len(s) - 1)) + DigitVal(s[Len(s)])
StrToInt(s) ==
  LET t == Strip(s) IN
  IF t # <<>> /\ \A i \in 1..Len(t) : t[i] \in DigitSet THEN DecVal(t) ELSE -1

\* index of the first occurrence of c in s, 0 when absent
FirstIndex(s, c) ==
  IF \E i \in 1..Len(s) : s[i] = c
  THEN CHOOSE i \in 1..Len(s) : s[i] = c /\ \A j \in 1..(i - 1) : s[j] # c
  ELSE 0

\* s.split(c): the sequence of pieces
RECURSIVE Split(_, _)
Split(s, c) ==
  LET i == FirstIndex(s, c) IN
  IF i = 0 THEN <<s>>
  ELSE <<SubSeq(s, 1, i - 1)>> \o Split(SubSeq(s, i + 1, Len(s)), c)

\* sep.join(parts)
RECURSIVE Join(_, _)
Join(parts, sep) ==
  IF parts = <<>> THEN <<>>
  ELSE IF Len(parts) = 1 THEN parts[1]
  ELSE parts[1] \o sep \o Join(Tail(parts), sep)

\* list.sort() on integers, ascending (insertion sort)
RECURSIVE Insert(_, _)
Insert(x, s) ==
  IF s = <<>> THEN <<x>>
  ELSE IF x <= Head(s) THEN <<x>> \o s
  ELSE <<Head(s)>> \o Insert(x, Tail(s))
RECURSIVE Sort(_)
Sort(s) == IF s = <<>> THEN <<>> ELSE Insert(Head(s), Sort(Tail(s)))

\* s.startswith(p)
StartsWith(s, p) == Len(s) >= Len(p) /\ SubSeq(s, 1, Len(p)) = p

\* m in s
Contains(s, m) ==
  \E i \in 1..(Len(s) - Len(m) + 1) : SubSeq(s, i, i + Len(m) - 1) = m

\* s.replace(m, "")
RECURSIVE Remove(_, _)
Remove(s, m) ==
  IF s = <<>> THEN <<>>
  ELSE IF StartsWith(s, m) THEN Remove(SubSeq(s, Len(m) + 1, Len(s)), m)
  ELSE <<Head(s)>> \o Remove(Tail(s), m)

\* the longest prefix of s made of members of S
RECURSIVE TakeWhile(_, _)
TakeWhile(s, S) ==
  IF s # <<>> /\ Head(s) \in S THEN <<Head(s)>> \o TakeWhile(Tail(s), S) ELSE <<>>

(***************************************************************************)
(* action_map.py                                                           *)
(***************************************************************************)
\* f"{num_actions}({', '.join(map(str, param_counts))})"
Summary(param_counts) ==
  IntToStr(Len(param_counts)) \o <<"(">>
    \o Join([i \in 1..Len(param_counts) |-> IntToStr(param_counts[i])], <<",", " ">>)
    \o <<")">>

\* line 59 without the sort of line 58
GtMapDeclaredOrder(param_counts) == Summary(param_counts)

\* lines 57-59: the counts in declaration order, sorted, then formatted
GtMap(param_counts) == Summary(Sort(param_counts))

\* _parse_impl_map: [err, num_actions, param_counts]
_parse_impl_map(impl_map) ==
  LET i == FirstIndex(impl_map, "(")
      actions_str == SubSeq(impl_map, 1, i - 1)
      params_str == RStrip(SubSeq(impl_map, i + 1, Len(impl_map)), ")")
      pieces == Split(params_str, ",")
      counts == IF params_str = <<>> THEN <<>>
                ELSE [k \in 1..Len(pieces) |-> StrToInt(pieces[k])]
  IN IF i = 0 \/ StrToInt(actions_str) < 0 \/ \E k \in 1..Len(counts) : counts[k] < 0
     THEN [err |-> TRUE, num_actions |-> 0, param_counts |-> <<>>]
     ELSE [err |-> FALSE, num_actions |-> StrToInt(actions_str), param_counts |-> counts]

\* int(action_map_info.implementation.split("(")[0]) of workflow.py line 99
ImplActionCount(implementation) == StrToInt(Split(implementation, "(")[1])

(***************************************************************************)
(* External commands.  Timeout(c) is the timeout= argument of the          *)
(* subprocess.run call that issues c; 0 stands for "no timeout argument".  *)
(***************************************************************************)
Timeout(c) ==
  CASE c = "classname" -> 30
    [] c = "new_classlib" -> 30
    [] c = "new_classlib_retry" -> 40
    [] c = "map" -> 30
    [] c = "report" -> 30
    [] c = "generator" -> 30
    [] c \in {"test_llm", "test_gt"} -> 480
    [] OTHER -> 0

\* What a subprocess.run call can do: exit 0, exit non-zero, run into its
\* timeout (with or without captured stderr bytes), fail to launch
\* (OSError), or - without a timeout - never come back.
FullOutcomes(c) ==
  {"ok", "nonzero", "launch"}
    \cup (IF Timeout(c) > 0 THEN {"timeout", "timeout_stderr"} ELSE {"hang"})

\* The tools, the model and the filesystem answer as they like (env is
\* None), or they are deterministic: each gives one answer whenever it is
\* asked, the usual one unless env names another for it.
VARIABLE env
Answers(point, S, usual) ==
  IF env = None THEN S
  ELSE S \cap {IF env[1].dev[1] = point THEN env[1].dev[2] ELSE usual}

Outcomes(c) == Answers(c, FullOutcomes(c), "ok")

\* str(e)
StrE(c) == Text("exc", c)
\* getattr(e, "stderr", str(e)): CalledProcessError carries the captured
\* text, TimeoutExpired carries None or bytes, OSError has no such attribute
GetattrStderr(c, k) ==
  CASE k = "nonzero" -> Text("stderr", c)
    [] k = "timeout" -> None
    [] k = "timeout_stderr" -> PyBytes
    [] OTHER -> StrE(c)

PkgCmd(project, pkg) == "add_package:" \o project \o ":" \o pkg

Cmds == {"classname", "new_classlib", "new_xunit_llm", "add_reference_llm",
         "new_xunit_gt", "add_reference_gt", "map", "report", "llm_invoke",
         "generator", "new_sln", "sln_add_impl", "sln_add_llm", "sln_add_gt",
         "build", "test_llm", "test_gt"}

RequiredPackages == <<"OutSystems.ExternalLibraries.SDK", "CustomCode.Analyzer">>
LlmTestPackages == <<"xunit", "xunit.runner.visualstudio", "Microsoft.NET.Test.Sdk", "Moq">>
GtTestPackages == <<"xunit", "xunit.runner.visualstudio", "Microsoft.NET.Test.Sdk">>

(***************************************************************************)
(* Inputs of one run.                                                      *)
(***************************************************************************)
\* the ground truth file: unreadable, not of the expected structure, or a
\* list of actions given by their parameter counts in declaration order
YamlSpecs == UNION {[1..n -> 0..MaxParams] : n \in 0..MaxActions}
YamlFiles ==
  {<<"yaml", "unreadable", <<>>>>, <<"yaml", "invalid", <<>>>>}
    \cup {<<"yaml", "actions", s>> : s \in YamlSpecs}

\* the comma separated entries of nuget_packages
PkgEntries == {"", "None", " Moq", "Polly", " Serilog "}
PkgStrip(e) ==
  CASE e = " Moq" -> "Moq" [] e = " Serilog " -> "Serilog" [] OTHER -> e
PkgLower(e) ==
  CASE e = "None" -> "none" [] e = "Moq" -> "moq" [] e = " Moq" -> " moq"
    [] e = "Polly" -> "polly" [] e = "Serilog" -> "serilog"
    [] e = " Serilog " -> " serilog " [] OTHER -> e
PkgLists == UNION {[1..n -> PkgEntries] : n \in 1..MaxPkgs}

RECURSIVE SelectPkgs(_)
SelectPkgs(entries) ==
  IF entries = <<>> THEN <<>>
  ELSE LET pkg == PkgStrip(Head(entries)) IN
       IF pkg # "" /\ PkgLower(pkg) # "none" /\ PkgLower(pkg) # "moq"
       THEN <<pkg>> \o SelectPkgs(Tail(entries))
       ELSE SelectPkgs(Tail(entries))

\* the list `packages` of _install_optional_packages, empty when the guard
\* `nuget_packages and nuget_packages.lower() != "none"` fails
OptionalPackages(entries) ==
  IF entries = <<"">> \/ (Len(entries) = 1 /\ PkgLower(entries[1]) = "none")
  THEN <<>>
  ELSE SelectPkgs(entries)

(***************************************************************************)
(* Records of agents/utils/models.py                                       *)
(***************************************************************************)
BuildMetrics(warnings, errors, success, duration_ms) ==
  [warnings |-> warnings, errors |-> errors, success |-> success,
   duration_ms |-> duration_ms]
DefaultBuildMetrics == BuildMetrics(<<>>, <<>>, FALSE, 0)

TestResult(passed, failed, skipped, duration_ms, error_details) ==
  [passed |-> passed, failed |-> failed, skipped |-> skipped,
   duration_ms |-> duration_ms, error_details |-> error_details]

ActionMapInfo(implementation, ground_truth, matches) ==
  [implementation |-> implementation, ground_truth |-> ground_truth,
   matches |-> matches]

ActionMapResult(should_continue, output, info, param_mapping) ==
  [should_continue |-> should_continue, odc_generator_output |-> output,
   action_map_info |-> info, param_mapping |-> param_mapping]

ValidationMetrics(bm, llm, gt, odc, dir, info) ==
  [build_metrics |-> bm, llm_test_results |-> llm,
   ground_truth_test_results |-> gt, odc_generator_output |-> odc,
   solution_dir |-> dir, action_map_info |-> info]

(***************************************************************************)
(* The working tree and the target directory are sets of paths.            *)
(***************************************************************************)
Lib == "Lib"
OldTree == {<<Lib, "Old.cs">>}
BuildArtifacts(tree) ==
  {<<p[1], "bin", "out.dll">> : p \in {q \in tree : Len(q) = 2 /\ q[2] = q[1] \o ".csproj"}}
    \cup {<<p[1], "obj", "project.assets.json">> : p \in {q \in tree : Len(q) = 2 /\ q[2] = q[1] \o ".csproj"}}
\* a copy that skips bin only
CopyTreeKeepsObj(tree) == {p \in tree : \A i \in 1..Len(p) : p[i] # "bin"}

\* shutil.copytree(..., ignore=shutil.ignore_patterns("bin", "obj")): an
\* entry named bin or obj is skipped at every level, with all below it
CopyTree(tree) == {p \in tree : \A i \in 1..Len(p) : p[i] \notin {"bin", "obj"}}
DirExists(tree, name) == \E p \in tree : p[1] = name

VARIABLES
  yaml_path, search_term_llm, nuget_packages, target_dir, retain_on_failure,
  pc, idx, calls, pkgCalls, slept, last_call,
  failed_packages, local_info, amr, odc_raw_output, action_map_info,
  build_metrics, llm_results, gt_results,
  tmpExists, tree, target, copies, result

\* a function of the program taken alone: what it is applied to and what
\* it returned
VARIABLES call, ret

\* the number of the run on the same arguments, and what the first one left
VARIABLES run, before

\* the calls under way at the same time and the directories they share
VARIABLE conc

\* generate_and_validate under way: its arguments, its position, its local
\* variables and the directories under output_dir
VARIABLE gv

\* what no step of a run changes: its arguments and its environment, a
\* function taken alone, and what is kept of an earlier run
inputs ==
  <<yaml_path, search_term_llm, nuget_packages, target_dir, retain_on_failure,
    env, call, ret, run, before, conc, gv>>
cmdlog == <<calls, pkgCalls, slept>>
setupvars == <<failed_packages, local_info, amr, odc_raw_output, action_map_info>>
buildvars == <<build_metrics, llm_results, gt_results>>
vars == <<inputs, pc, idx, cmdlog, last_call, setupvars, buildvars, tmpExists, tree, target, copies, result>>

\* The two stages that read yaml_path and nuget_packages do not read each
\* other's input: the runs vary one of the two over its whole range while
\* the other takes a base value.
BaseYamlFiles == {None}
BasePkgLists == {<<"None">>}

Unbound == ActionMapResult(FALSE, <<"unbound">>, None, None)

\* validate_generated_code is entered
Entered ==
  /\ pc = "start"
  /\ idx = 0
  /\ calls = [c \in Cmds |-> 0]
  /\ pkgCalls = <<>>
  /\ slept = 0
  /\ last_call = <<"", "">>
  /\ failed_packages = <<>>
  /\ local_info = None
  /\ amr = Unbound
  /\ odc_raw_output = EmptyStr
  /\ action_map_info = None
  /\ build_metrics = DefaultBuildMetrics
  /\ llm_results = None
  /\ gt_results = None
  /\ tmpExists = FALSE
  /\ tree = {}
  /\ copies = 0
  /\ result = ValidationMetrics(DefaultBuildMetrics, None, None, EmptyStr, None, None)

NoCall == call = None /\ ret = None
FirstRun == run = 1 /\ before = None
NoOtherCall == conc = None
NoCaller == gv = None

Init ==
  /\ \/ yaml_path \in {None} \cup YamlFiles /\ nuget_packages \in BasePkgLists
     \/ yaml_path \in BaseYamlFiles /\ nuget_packages \in PkgLists
  /\ search_term_llm \in {None, Some("model")}
  /\ target_dir \in {None, Some("out")}
  /\ retain_on_failure \in BOOLEAN
  /\ Entered
  /\ target \in (IF target_dir = None THEN {None} ELSE {None, Some(OldTree)})
  /\ env = None
  /\ NoCall
  /\ FirstRun
  /\ NoOtherCall
  /\ NoCaller

(***************************************************************************)
(* Control: go on inside the run, return a report (leaving the             *)
(* TemporaryDirectory block removes the working tree), or wait forever.    *)
(***************************************************************************)
Continue(p, i, t) ==
  /\ pc' = p /\ idx' = i /\ tree' = t
  /\ UNCHANGED <<result, tmpExists>>

\* a return that leaves the working directory behind
ReturnKeepsWorkingTree(report) ==
  /\ pc' = "returned" /\ idx' = 0 /\ tree' = tree
  /\ result' = report /\ tmpExists' = tmpExists

\* a return statement inside the with block of line 39: the report goes to
\* the caller and the TemporaryDirectory is removed
Return(report) ==
  /\ pc' = "returned" /\ idx' = 0 /\ tree' = {}
  /\ result' = report /\ tmpExists' = FALSE

Block ==
  /\ pc' = "blocked"
  /\ UNCHANGED <<idx, tree, result, tmpExists>>

\* line 62: class_dir, and line 142: target_dir / class_name
ClassDir == Some("class_dir")
TargetPath == Some("target")

\* lines 46-93 keeping the working path when the caller asked for it
EarlyReportKeepsDir(odc) ==
  ValidationMetrics(build_metrics, None, None, odc,
                    IF retain_on_failure THEN ClassDir ELSE None, None)

\* the reports of workflow.py lines 46-93
EarlyReport(odc) == ValidationMetrics(build_metrics, None, None, odc, None, None)

\* an exception leaves validate_generated_code; the with block of line 39
\* removes the working tree on the way out
Escape ==
  /\ pc' = "raised" /\ idx' = 0 /\ tree' = {}
  /\ result' = result /\ tmpExists' = FALSE

\* the classes of the exceptions raised in a run: all derive from Exception
ExceptionClasses ==
  {"ProjectSetupError", "PackageInstallationError", "CalledProcessError",
   "TimeoutExpired", "OSError", "TypeError", "UnboundLocalError", "ValueError"}

\* what subprocess.run raises for an outcome other than a normal exit
ClassOf(k) ==
  CASE k = "nonzero" -> "CalledProcessError"
    [] k \in {"timeout", "timeout_stderr"} -> "TimeoutExpired"
    [] OTHER -> "OSError"

\* lines 69-84 alone, without the handler of line 85
SetupHandlersTypedOnly == {"ProjectSetupError", "PackageInstallationError"}

\* the except clauses of lines 69, 77 and 85 around create_and_setup_projects
SetupHandlers == {"ProjectSetupError", "PackageInstallationError", "Exception"}

Caught(cls, handlers) ==
  cls \in handlers \/ ("Exception" \in handlers /\ cls \in ExceptionClasses)

\* create_and_setup_projects raises an exception of class cls; odc is what
\* the handler that takes it reads from it (e.output, e.error_output or
\* getattr(e, "stderr", str(e)))
SetupRaises(cls, odc) ==
  IF Caught(cls, SetupHandlers) THEN Return(EarlyReport(odc)) ELSE Escape

\* command c is issued and ends as k
Invoke(c) == calls' = [calls EXCEPT ![c] = @ + 1]
Ran(c, k) == last_call' = <<c, k>>

(***************************************************************************)
(* workflow.py: validate_generated_code, lines 32-63                       *)
(***************************************************************************)
ValidateStart ==
  /\ pc = "start"
  /\ pc' = "extract_class_name"
  /\ tmpExists' = TRUE
  /\ UNCHANGED <<inputs, idx, cmdlog, last_call, setupvars, buildvars, tree, target, copies, result>>

\* utils.extract_class_name and the two handlers around it
ExtractClassName ==
  /\ pc = "extract_class_name"
  /\ Invoke("classname")
  /\ \E k \in Answers("classname", FullOutcomes("classname") \cup {"empty"}, "ok") :
       /\ Ran("classname", k)
       /\ \/ k = "ok" /\ Continue("new_classlib", 0, {})
          \/ k = "empty" /\ Return(EarlyReport(Text("msg", "CCAGTestGenerator did not return a class name")))
          \/ k \notin {"ok", "empty"} /\ Return(EarlyReport(GetattrStderr("classname", k)))
  /\ UNCHANGED <<inputs, pkgCalls, slept, setupvars, buildvars, target, copies>>

(***************************************************************************)
(* setup.py: _create_implementation_project                                *)
(***************************************************************************)
\* line 89 catching TimeoutExpired only
TransientFailuresTimeoutOnly == {"timeout", "timeout_stderr"}

\* line 89: except (subprocess.TimeoutExpired, subprocess.CalledProcessError)
TransientFailures == {"timeout", "timeout_stderr", "nonzero"}

\* line 121 without the second argument
RequiredPackageOutputDropped(c) == EmptyStr

\* line 121 and workflow.py line 75: the output of the ProjectSetupError
\* raised for a required package is the stderr of its install command
RequiredPackageOutput(c) == Text("stderr", c)

NextAfterRequired ==
  IF OptionalPackages(nuget_packages) = <<>> THEN "new_xunit_llm" ELSE "install_optional"
NextAfterOptional(i) ==
  IF i < Len(OptionalPackages(nuget_packages)) THEN "install_optional" ELSE "new_xunit_llm"

\* first attempt, lines 80-91: other exceptions than the two of line 89
\* reach the last handler of validate_generated_code
CreateImplementationProject ==
  /\ pc = "new_classlib"
  /\ Invoke("new_classlib")
  /\ \E k \in Outcomes("new_classlib") :
       /\ Ran("new_classlib", k)
       /\ \/ /\ k = "ok"
             /\ Continue("write_impl", 0, tree \cup {<<Lib, Lib \o ".csproj">>, <<Lib, "Class1.cs">>})
             /\ slept' = slept
          \/ /\ k \in TransientFailures
             /\ Continue("new_classlib_retry", 0, tree)
             /\ slept' = slept + 1
          \/ /\ k \notin TransientFailures \cup {"ok"}
             /\ SetupRaises(ClassOf(k), GetattrStderr("new_classlib", k))
             /\ slept' = slept
  /\ UNCHANGED <<inputs, pkgCalls, setupvars, buildvars, target, copies>>

\* second attempt, lines 92-103
RetryCreateImplementationProject ==
  /\ pc = "new_classlib_retry"
  /\ Invoke("new_classlib")
  /\ \E k \in Outcomes("new_classlib_retry") :
       /\ Ran("new_classlib", k)
       /\ \/ /\ k = "ok"
             /\ Continue("write_impl", 0, tree \cup {<<Lib, Lib \o ".csproj">>, <<Lib, "Class1.cs">>})
          \/ /\ k # "ok"
             /\ SetupRaises("ProjectSetupError", GetattrStderr("new_classlib", k))
  /\ UNCHANGED <<inputs, pkgCalls, slept, setupvars, buildvars, target, copies>>

\* lines 106-114: ProjectSetupError without output
WriteImplementationCode ==
  /\ pc = "write_impl"
  /\ \E k \in Answers("write_impl", {"ok", "oserror"}, "ok") :
       /\ Ran("write_impl", k)
       /\ \/ /\ k = "ok"
             /\ Continue("install_required", 1, (tree \ {<<Lib, "Class1.cs">>}) \cup {<<Lib, Lib \o ".cs">>})
          \/ /\ k = "oserror"
             /\ SetupRaises("ProjectSetupError", EmptyStr)
  /\ UNCHANGED <<inputs, cmdlog, setupvars, buildvars, target, copies>>

\* lines 117-121 with _install_package: no timeout argument, and only
\* CalledProcessError is handled there
InstallRequiredPackage ==
  /\ pc = "install_required"
  /\ LET c == PkgCmd("impl", RequiredPackages[idx]) IN
     /\ pkgCalls' = Append(pkgCalls, c)
     /\ \E k \in Outcomes(c) :
          /\ Ran(c, k)
          /\ \/ /\ k = "ok"
                /\ IF idx < Len(RequiredPackages)
                   THEN Continue("install_required", idx + 1, tree)
                   ELSE Continue(NextAfterRequired, 1, tree)
             \/ k = "nonzero" /\ SetupRaises("ProjectSetupError", RequiredPackageOutput(c))
             \/ k = "launch" /\ SetupRaises("OSError", StrE(c))
             \/ k = "hang" /\ Block
  /\ UNCHANGED <<inputs, calls, slept, setupvars, buildvars, target, copies>>

(***************************************************************************)
(* setup.py: _install_optional_packages                                    *)
(***************************************************************************)
InstallOptionalPackage ==
  /\ pc = "install_optional"
  /\ LET packages == OptionalPackages(nuget_packages)
         c == PkgCmd("impl", packages[idx])
         next == NextAfterOptional(idx) IN
     /\ pkgCalls' = Append(pkgCalls, c)
     /\ \E k \in Outcomes(c) :
          /\ Ran(c, k)
          /\ \/ /\ k = "ok"
                /\ Continue(next, idx + 1, tree)
                /\ failed_packages' = failed_packages
             \/ /\ k = "nonzero"
                /\ Continue(next, idx + 1, tree)
                /\ failed_packages' = Append(failed_packages, packages[idx])
             \/ /\ k = "launch"
                /\ SetupRaises("OSError", StrE(c))
                /\ failed_packages' = failed_packages
             \/ /\ k = "hang"
                /\ Block
                /\ failed_packages' = failed_packages
  /\ UNCHANGED <<inputs, calls, slept, local_info, amr, odc_raw_output, action_map_info,
                 buildvars, target, copies>>

(***************************************************************************)
(* setup.py: _create_llm_test_project.  Every exception of the block is    *)
(* turned into ProjectSetupError(msg, getattr(e, "stderr", str(e))).       *)
(***************************************************************************)
LlmTests == "LLMGeneratedTests"
GtTests == "GroundTruthTests"

\* a scaffold or reference command of a test project: no timeout, no retry
TestProjectCommand(at, c, next, i, files) ==
  /\ pc = at
  /\ Invoke(c)
  /\ \E k \in Outcomes(c) :
       /\ Ran(c, k)
       /\ \/ k = "ok" /\ Continue(next, i, tree \cup files)
          \/ k \in {"nonzero", "launch"} /\ SetupRaises("ProjectSetupError", GetattrStderr(c, k))
          \/ k = "hang" /\ Block
  /\ UNCHANGED <<inputs, pkgCalls, slept, setupvars, buildvars, target, copies>>

CreateLlmTestProject ==
  TestProjectCommand("new_xunit_llm", "new_xunit_llm", "install_llm", 1,
                     {<<LlmTests, LlmTests \o ".csproj">>})

\* a PackageInstallationError has no stderr attribute: the handler of the
\* caller takes str(e), the message built in custom_exceptions.py
InstallTestPackage(at, project, packages, next) ==
  /\ pc = at
  /\ LET c == PkgCmd(project, packages[idx]) IN
     /\ pkgCalls' = Append(pkgCalls, c)
     /\ \E k \in Outcomes(c) :
          /\ Ran(c, k)
          /\ \/ /\ k = "ok"
                /\ IF idx < Len(packages)
                   THEN Continue(at, idx + 1, tree)
                   ELSE Continue(next, 0, tree)
             \/ k = "nonzero" /\ SetupRaises("ProjectSetupError", Text("Failed to install package", c))
             \/ k = "launch" /\ SetupRaises("ProjectSetupError", StrE(c))
             \/ k = "hang" /\ Block
  /\ UNCHANGED <<inputs, calls, slept, setupvars, buildvars, target, copies>>

InstallLlmTestPackage ==
  InstallTestPackage("install_llm", "llm", LlmTestPackages, "add_reference_llm")

AddReferenceLlm ==
  TestProjectCommand("add_reference_llm", "add_reference_llm", "write_llm_tests", 0, {})

\* create_and_setup_projects going from the LLM test project to the solution
AfterLlmTestProjectNoGroundTruth == "new_sln"

\* setup.py lines 49-58: the ground truth tests, with the action map
\* validation in them, come before the solution and only with a yaml_path
AfterLlmTestProject == IF yaml_path # None THEN "new_xunit_gt" ELSE "new_sln"

WriteLlmTests ==
  /\ pc = "write_llm_tests"
  /\ \E k \in Answers("write_llm_tests", {"ok", "oserror"}, "ok") :
       /\ Ran("write_llm_tests", k)
       /\ \/ /\ k = "ok"
             /\ Continue(AfterLlmTestProject, 0,
                         tree \cup {<<LlmTests, Lib \o "Tests.cs">>})
          \/ k = "oserror" /\ SetupRaises("ProjectSetupError", StrE("write_llm_tests"))
  /\ UNCHANGED <<inputs, cmdlog, setupvars, buildvars, target, copies>>

(***************************************************************************)
(* setup.py: _create_ground_truth_tests, lines 199-235                     *)
(***************************************************************************)
CreateGroundTruthTests ==
  TestProjectCommand("new_xunit_gt", "new_xunit_gt", "install_gt", 1,
                     {<<GtTests>>, <<GtTests, GtTests \o ".csproj">>,
                      <<GtTests, "obj", "project.assets.json">>})

InstallGtTestPackage ==
  InstallTestPackage("install_gt", "gt", GtTestPackages, "add_reference_gt")

\* lines 237-252 with `result` bound on both branches
ResultUnboundNever == FALSE

\* lines 237-252: `result` is bound at line 243 only, in the branch taken
\* when a model was given, and read at line 252 on both
ResultUnbound == search_term_llm = None

\* lines 226-253: after the reference is added, `result` is bound only
\* when a model was given; reading it otherwise raises UnboundLocalError,
\* which reaches the last handler of validate_generated_code
AddReferenceGt ==
  /\ pc = "add_reference_gt"
  /\ Invoke("add_reference_gt")
  /\ \E k \in Outcomes("add_reference_gt") :
       /\ Ran("add_reference_gt", k)
       /\ \/ /\ k = "ok"
             /\ IF ResultUnbound
                THEN SetupRaises("UnboundLocalError", StrE("UnboundLocalError"))
                ELSE Continue("map", 0, tree)
          \/ k \in {"nonzero", "launch"}
               /\ SetupRaises("ProjectSetupError", GetattrStderr("add_reference_gt", k))
          \/ k = "hang" /\ Block
  /\ UNCHANGED <<inputs, pkgCalls, slept, setupvars, buildvars, target, copies>>

(***************************************************************************)
(* action_map.py: validate_action_map, called from setup.py line 243.      *)
(***************************************************************************)
\* what `--map` may print (stripped): the summary of some implementation,
\* nothing, a summary with unsorted counts, or something else
ImplMaps ==
  {GtMap(s) : s \in YamlSpecs}
    \cup {<<>>, <<"2", "(", "2", ",", " ", "1", ")">>, <<"N", "/", "A">>}

\* the replies of the model: of the requested form, of another form, blank
GoodReply == "(Add:a=Add:x),(Add:b=Add:y)"
LlmReplies == {GoodReply, "a is x and b is y", " "}
ReplyStrip(m) == IF m = " " THEN "" ELSE m

\* lines 243-253 of setup.py: the result of validate_action_map is taken
\* over, and ground truth test generation follows only if should_continue
ValidateReturns(r) ==
  /\ amr' = r
  /\ odc_raw_output' = r.odc_generator_output
  /\ action_map_info' = r.action_map_info
  /\ Continue(IF r.should_continue THEN "generator" ELSE "new_sln", 0, tree)

\* line 85 never taking the one-to-one branch
OneToOneNever(param_count) == FALSE

\* line 85: with one parameter the mapping is one-to-one
OneToOne(param_count) == param_count = 1

\* line 43 letting an empty map pass
EmptyMapAccepted ==
  ActionMapResult(TRUE, Text("msg", "Empty implementation map"), None, None)

\* lines 42-43: an empty implementation map ends the validation
EmptyMapResult ==
  ActionMapResult(FALSE, Text("msg", "Empty implementation map"), None, None)

\* lines 41-97 of action_map.py, after `--map` printed impl_map: the result,
\* or the request to go on with _get_param_mapping
ToParamMapping == <<"_get_param_mapping">>
InfoOf(impl_map, yaml) ==
  ActionMapInfo(impl_map, GtMap(yaml[3]), impl_map = GtMap(yaml[3]))
MapResult(impl_map, yaml) ==
  LET info == InfoOf(impl_map, yaml)
      parsed == _parse_impl_map(impl_map)
  IN
  IF impl_map = <<>>
  THEN EmptyMapResult
  ELSE IF yaml[2] = "unreadable"
  THEN ActionMapResult(FALSE, Text("msg", "YAML error"), None, None)
  ELSE IF yaml[2] = "invalid"
  THEN ActionMapResult(FALSE, Text("msg", "Invalid YAML structure"), None, None)
  ELSE IF ~info.matches
  THEN ActionMapResult(FALSE, EmptyStr, Some(info), None)
  ELSE IF parsed.err
  THEN ActionMapResult(FALSE, StrE("ValueError"), None, None)
  ELSE IF parsed.num_actions > 1
  THEN ActionMapResult(FALSE, EmptyStr, Some(info), None)
  ELSE IF parsed.param_counts = <<>>
  THEN ActionMapResult(FALSE, StrE("IndexError"), None, None)
  ELSE IF OneToOne(parsed.param_counts[1])
  THEN ActionMapResult(TRUE, EmptyStr, Some(info), None)
  ELSE ActionMapResult(TRUE, ToParamMapping, Some(info), None)

RunMap ==
  /\ pc = "map"
  /\ Invoke("map")
  /\ \E k \in Outcomes("map") :
       /\ Ran("map", k)
       /\ \/ /\ k = "ok"
             /\ \E impl_map \in Answers("impl_map", ImplMaps, GtMap(yaml_path[3])) :
                  LET r == MapResult(impl_map, yaml_path) IN
                  /\ local_info' = r.action_map_info
                  /\ IF r.odc_generator_output = ToParamMapping
                     THEN /\ Continue("report", 0, tree)
                          /\ UNCHANGED <<amr, odc_raw_output, action_map_info>>
                     ELSE ValidateReturns(r)
          \/ /\ k # "ok"
             /\ local_info' = local_info
             /\ ValidateReturns(ActionMapResult(FALSE, StrE("map"), None, None))
  /\ UNCHANGED <<inputs, pkgCalls, slept, failed_packages, buildvars, target, copies>>

\* _get_param_mapping returned None: line 96
NoMapping ==
  ActionMapResult(FALSE, Text("msg", "Failed to generate parameter mapping"), local_info, None)

\* _get_param_mapping, lines 126-137
RunReport ==
  /\ pc = "report"
  /\ Invoke("report")
  /\ \E k \in Outcomes("report") :
       /\ Ran("report", k)
       /\ \/ /\ k = "ok"
             /\ Continue("llm_invoke", 0, tree)
             /\ UNCHANGED <<amr, odc_raw_output, action_map_info>>
          \/ /\ k # "ok"
             /\ ValidateReturns(NoMapping)
  /\ UNCHANGED <<inputs, pkgCalls, slept, failed_packages, local_info, buildvars, target, copies>>

\* _get_param_mapping, lines 161-173: the model call has no timeout; the
\* stripped content is returned whatever its form
InvokeLlm ==
  /\ pc = "llm_invoke"
  /\ Invoke("llm_invoke")
  /\ \/ \E m \in Answers("llm_invoke", LlmReplies, GoodReply) :
          /\ Ran("llm_invoke", m)
          /\ ValidateReturns(ActionMapResult(TRUE, EmptyStr, local_info, Some(ReplyStrip(m))))
     \/ \E k \in Answers("llm_invoke", {"raise", "not_str"}, GoodReply) :
          /\ Ran("llm_invoke", k)
          /\ ValidateReturns(NoMapping)
     \/ /\ Answers("llm_invoke", {"hang"}, GoodReply) # {}
        /\ Ran("llm_invoke", "hang")
        /\ Block
        /\ UNCHANGED <<amr, odc_raw_output, action_map_info>>
  /\ UNCHANGED <<inputs, pkgCalls, slept, failed_packages, local_info, buildvars, target, copies>>

(***************************************************************************)
(* setup.py: _create_ground_truth_tests, lines 255-285                     *)
(***************************************************************************)
\* TimeoutExpired has stdout None or bytes: `getattr(e, "stdout", "") + "\n"`
\* raises TypeError inside the handler, and that leaves the setup
RunGenerator ==
  /\ pc = "generator"
  /\ Invoke("generator")
  /\ \E k \in Outcomes("generator") :
       /\ Ran("generator", k)
       /\ \/ /\ k = "ok"
             /\ odc_raw_output' = Text("stdout+stderr", "generator")
             /\ Continue("new_sln", 0, tree \cup {<<GtTests, Lib \o "Tests.cs">>})
          \/ /\ k = "nonzero"
             /\ odc_raw_output' = Text("e.stdout+e.stderr", "generator")
             /\ Continue("new_sln", 0, tree)
          \/ /\ k = "launch"
             /\ odc_raw_output' = StrE("generator")
             /\ Continue("new_sln", 0, tree)
          \/ /\ k \in {"timeout", "timeout_stderr"}
             /\ odc_raw_output' = odc_raw_output
             /\ SetupRaises("TypeError", StrE("TypeError"))
  /\ UNCHANGED <<inputs, pkgCalls, slept, failed_packages, local_info, amr, action_map_info,
                 buildvars, target, copies>>

(***************************************************************************)
(* setup.py: _create_solution_and_add_projects, then workflow.py 95-108    *)
(***************************************************************************)
CreateSolution ==
  /\ pc = "new_sln"
  /\ Invoke("new_sln")
  /\ \E k \in Outcomes("new_sln") :
       /\ Ran("new_sln", k)
       /\ \/ k = "ok" /\ Continue("sln_add", 1, tree \cup {<<Lib \o ".sln">>})
          \/ k \in {"nonzero", "launch"}
               /\ SetupRaises("ProjectSetupError", GetattrStderr("new_sln", k))
          \/ k = "hang" /\ Block
  /\ UNCHANGED <<inputs, pkgCalls, slept, setupvars, buildvars, target, copies>>

projects_to_add ==
  <<"impl", "llm">> \o (IF yaml_path # None /\ DirExists(tree, GtTests) THEN <<"gt">> ELSE <<>>)

\* the test of line 96-100 without its action count
SkipBuildOnMismatchOnly ==
  /\ yaml_path # None
  /\ \/ action_map_info = None
     \/ ~action_map_info[1].matches

\* workflow.py line 96-100
SkipBuild ==
  /\ yaml_path # None
  /\ \/ action_map_info = None
     \/ ~action_map_info[1].matches
     \/ ImplActionCount(action_map_info[1].implementation) > 1

\* line 99: int() raises ValueError for a count that is not a number, and
\* no handler is around it
SkipBuildRaises ==
  /\ yaml_path # None
  /\ action_map_info # None
  /\ action_map_info[1].matches
  /\ ImplActionCount(action_map_info[1].implementation) = -1

SkipReport ==
  ValidationMetrics(build_metrics, None, None, odc_raw_output, None, action_map_info)

\* a project whose `dotnet sln add` failed is added again
AfterSlnAddRetry(k, i) == IF k = "ok" THEN i + 1 ELSE i

\* lines 309-320: the loop goes on to the next project whatever the outcome
AfterSlnAdd(k, i) == i + 1

\* the loop of lines 309-320 without a handler of its own: a failure
\* reaches the handler of line 325
SlnAddHandlersNone == {}

\* line 319: the except clause around one `dotnet sln add`
SlnAddHandlers == {"Exception"}

\* one `dotnet sln add`; a failure is logged only.  After the last one the
\* setup returns and validate_generated_code decides whether to build.
AddProjectToSolution ==
  /\ pc = "sln_add"
  /\ LET c == "sln_add_" \o projects_to_add[idx] IN
     /\ Invoke(c)
     /\ \E k \in Outcomes(c) :
          /\ Ran(c, k)
          /\ \/ /\ k \in {"ok", "nonzero", "launch"}
                /\ IF k # "ok" /\ ~Caught(ClassOf(k), SlnAddHandlers)
                   THEN SetupRaises("ProjectSetupError", GetattrStderr(c, k))
                   ELSE IF AfterSlnAdd(k, idx) <= Len(projects_to_add)
                   THEN Continue("sln_add", AfterSlnAdd(k, idx), tree)
                   ELSE IF SkipBuildRaises
                   THEN Escape
                   ELSE IF SkipBuild
                   THEN Return(SkipReport)
                   ELSE Continue("build", 0, tree)
             \/ k = "hang" /\ Block
  /\ UNCHANGED <<inputs, pkgCalls, slept, setupvars, buildvars, target, copies>>

(***************************************************************************)
(* build.py                                                                *)
(* The text that a parser reads is a sequence of lines, and a line is a    *)
(* sequence of symbols: single characters, and words that hold none of the *)
(* characters the parser looks for.                                        *)
(***************************************************************************)
WarningMark == <<":", " ", "warning", " ">>
ErrorMark == <<":", " ", "error", " ">>
SucceededMark == <<"Build succeeded">>

WarnLine == <<"Lib.cs(3,5)", ":", " ", "warning", " ", "CS0168">>
ErrLine == <<"Lib.cs(7,1)", ":", " ", "error", " ", "CS1002">>
SucceededLine == <<"Build succeeded", ".">>
ElapsedLine ==
  <<"Time Elapsed", " ", "0", "0", ":", "0", "0", ":", "0", "1", ".", "5", "0">>

\* lines 44 and 48, and the first operand of line 52
HasWarning(line) == Contains(line, WarningMark)
HasError(line) == Contains(line, ErrorMark)
HasSucceeded(line) == Contains(line, SucceededMark)

\* float(seconds) * 1000 to the millisecond, -1 for ValueError
Millis(seconds) ==
  LET p == Split(seconds, ".")
      frac == IF Len(p) = 2 THEN p[2] ELSE <<>>
  IN IF Len(p) > 2 \/ (p[1] = <<>> /\ frac = <<>>) THEN -1
     ELSE 1000 * DecVal(p[1]) + DecVal(SubSeq(frac \o <<"0", "0", "0">>, 1, 3))

\* lines 55-63 on a line that holds the words "Time Elapsed":
\* r"Time Elapsed\s+(\d+):(\d+):([\d.]+)", and 0 when the line does not
\* match or the seconds are no number
ElapsedMs(line) ==
  LET i == FirstIndex(line, "Time Elapsed")
      after == SubSeq(line, i + 1, Len(line))
      f == Split(LStrip(after), ":")
      seconds == TakeWhile(f[3], DigitSet \cup {"."})
  IN IF i = 0 \/ after = <<>> \/ after[1] # " " \/ Len(f) < 3 THEN 0
     ELSE IF StrToInt(f[1]) < 0 \/ f[1] # Strip(f[1]) THEN 0
     ELSE IF StrToInt(f[2]) < 0 \/ f[2] # Strip(f[2]) \/ seconds = <<>> THEN 0
     ELSE IF Millis(seconds) < 0 THEN 0
     ELSE (StrToInt(f[1]) * 3600 + StrToInt(f[2]) * 60) * 1000 + Millis(seconds)

\* lines 43-50 without the seen sets: every marked line
EveryMarkedLine(lines, mark, seen) ==
  SelectSeq(lines, LAMBDA l : Contains(l, mark))

\* lines 43-50 for one of the two marks: the lines that hold it, each once,
\* in the order of first occurrence
RECURSIVE Distinct(_, _, _)
Distinct(lines, mark, seen) ==
  IF lines = <<>> THEN <<>>
  ELSE IF Contains(Head(lines), mark) /\ Head(lines) \notin seen
       THEN <<Head(lines)>> \o Distinct(Tail(lines), mark, seen \cup {Head(lines)})
       ELSE Distinct(Tail(lines), mark, seen)

\* line 52 taking the marker alone
BuildSuccessByMarker(marked, errors) == marked

\* line 52
BuildSuccess(marked, errors) == marked /\ Len(errors) = 0

_parse_build_output(build_stdout) ==
  LET warnings == Distinct(build_stdout, WarningMark, {})
      errors == Distinct(build_stdout, ErrorMark, {})
      success == BuildSuccess(\E i \in 1..Len(build_stdout) : HasSucceeded(build_stdout[i]),
                              errors)
      timed == SelectSeq(build_stdout, LAMBDA l : ElapsedMs(l) > 0)
      duration_ms == IF timed = <<>> THEN 0 ELSE ElapsedMs(timed[1])
  IN BuildMetrics(warnings, errors, success, duration_ms)

UsualBuildOutput == <<WarnLine, WarnLine, SucceededLine, ElapsedLine>>
BuildOutputs ==
  { UsualBuildOutput,
    <<ErrLine, <<"Build FAILED", ".">>, ElapsedLine>>,
    <<WarnLine, ErrLine, SucceededLine>>,
    <<>> }

(***************************************************************************)
(* test.py                                                                 *)
(***************************************************************************)
PassedMark == <<"Passed!", " ", " ", "-">>
FailedMark == <<"Failed!", " ", " ", "-">>
FailMarker == <<"[FAIL]">>

\* "name: value" as dotnet test prints it
Field(name, value) == <<name, ":", " ">> \o value

PassedLine ==
  PassedMark \o <<" ">>
    \o Join(<<Field("Failed", <<" ", "0">>), Field("Passed", <<" ", "4">>),
              Field("Skipped", <<" ", "0">>), Field("Total", <<" ", "4">>),
              Field("Duration", <<"8", "2", "0", " ", "ms">>)>>, <<",", " ">>)
FailedLine ==
  FailedMark \o <<" ">>
    \o Join(<<Field("Failed", <<" ", "1">>), Field("Passed", <<" ", "3">>),
              Field("Skipped", <<" ", "1">>), Field("Total", <<" ", "5">>),
              Field("Duration", <<"1", " ", "s">>)>>, <<",", " ">>)
FailMark == <<"[xUnit.net 00:00:00.41]", " ", " ", "LibTests.Adds", " ", "[FAIL]">>

\* line 75
IsSummary(line_strip) == Contains(line_strip, FailedMark) \/ Contains(line_strip, PassedMark)

\* the whole line taken for the statistics
StatsPartUnsplit(line_strip) == line_strip

\* line 76
StatsPart(line_strip) == Strip(Split(line_strip, "-")[2])

\* lines 87-88
DurationText(part) ==
  Split(Strip(Remove(Remove(part, <<"Duration", ":">>), <<"ms">>)), " ")[1]

\* line 68
NoCounts == [passed |-> 0, failed |-> 0, skipped |-> 0, duration_ms |-> 0]

\* lines 79-92 for one field: the counters after it; err when int() raises
\* the ValueError that only the handler of line 96 takes
ReadPart(c, field) ==
  LET part == Strip(field)
      n == StrToInt(Split(part, ":")[2])
      counted(after) == [err |-> n < 0, c |-> IF n < 0 THEN c ELSE after]
  IN IF StartsWith(part, <<"Failed", ":">>) THEN counted([c EXCEPT !.failed = n])
     ELSE IF StartsWith(part, <<"Passed", ":">>) THEN counted([c EXCEPT !.passed = n])
     ELSE IF StartsWith(part, <<"Skipped", ":">>) THEN counted([c EXCEPT !.skipped = n])
     ELSE IF StartsWith(part, <<"Duration", ":">>)
     THEN [err |-> FALSE,
           c |-> [c EXCEPT !.duration_ms =
                    IF StrToInt(DurationText(part)) < 0 THEN 0
                    ELSE StrToInt(DurationText(part))]]
     ELSE [err |-> FALSE, c |-> c]

\* the loop of line 78
RECURSIVE ReadParts(_, _)
ReadParts(c, parts) ==
  IF parts = <<>> THEN [err |-> FALSE, c |-> c]
  ELSE LET r == ReadPart(c, Head(parts)) IN
       IF r.err THEN r ELSE ReadParts(r.c, Tail(parts))

\* the loop of line 72 inside the try of line 71: an exception ends it, and
\* what was assigned before stays
RECURSIVE ReadLines(_, _, _)
ReadLines(lines, c, error_details) ==
  IF lines = <<>> THEN [c |-> c, error_details |-> error_details]
  ELSE LET line_strip == Strip(Head(lines))
           r == IF IsSummary(line_strip)
                THEN ReadParts(c, Split(StatsPart(line_strip), ","))
                ELSE [err |-> FALSE, c |-> c]
       IN IF r.err THEN [c |-> r.c, error_details |-> error_details]
          ELSE ReadLines(Tail(lines), r.c,
                         IF Contains(line_strip, FailMarker)
                         THEN Append(error_details, line_strip)
                         ELSE error_details)

\* lines 99-106: the result made of what the loop has left
TestResultOf(r) ==
  TestResult(r.c.passed, r.c.failed, r.c.skipped, r.c.duration_ms,
             IF r.error_details = <<>> THEN None ELSE Some(r.error_details))

_parse_test_output(test_stdout) == TestResultOf(ReadLines(test_stdout, NoCounts, <<>>))

TestOutputs == { <<PassedLine>>, <<FailMark, FailedLine>> }

(***************************************************************************)
(* workflow.py lines 110-152                                               *)
(***************************************************************************)
\* line 140: is the working tree copied to the target directory
WantsCopy(bm) == target_dir # None /\ (bm.success \/ retain_on_failure)

\* the step to the copy, or line 152 when no copy is made
Retain(report, bm, t) ==
  IF WantsCopy(bm)
  THEN /\ pc' = "copy" /\ result' = report /\ tree' = t
       /\ UNCHANGED <<idx, tmpExists>>
  ELSE Return(report)

\* lines 120-126 with the working path kept whatever the caller asked for
FailedBuildReportKeepsDir(bm) ==
  ValidationMetrics(bm, None, None, odc_raw_output, ClassDir, None)

\* lines 120-126
FailedBuildReport(bm) ==
  ValidationMetrics(bm, None, None, odc_raw_output,
                    IF retain_on_failure THEN ClassDir ELSE None, None)

\* line 136 giving the working path only on request
FullReportDirOnRequest == IF retain_on_failure THEN ClassDir ELSE None

\* line 136: solution_dir=class_dir
FullReportDir == ClassDir

\* lines 131-138 without the results of the LLM tests
FullReportWithoutLlm(llm, gt) ==
  ValidationMetrics(build_metrics, None, gt, odc_raw_output, FullReportDir, action_map_info)

\* lines 131-138
FullReport(llm, gt) ==
  ValidationMetrics(build_metrics, llm, gt, odc_raw_output, FullReportDir, action_map_info)

\* line 30: _parse_build_output on each output of the build, computed once
BuildParses == [o \in BuildOutputs |-> _parse_build_output(o)]

\* the handler of line 25 returning default metrics, without an error line
build_solution_unreported(k, out) ==
  IF k \in {"ok", "nonzero"} THEN BuildParses[out]
  ELSE DefaultBuildMetrics

\* build.build_solution: `dotnet build` has no timeout; check=False, so
\* every exit code yields a parsed output; an exception yields one error
build_solution(k, out) ==
  IF k \in {"ok", "nonzero"} THEN BuildParses[out]
  ELSE BuildMetrics(<<>>, <<"Build encountered an unexpected error">>, FALSE, 0)

\* line 110-126
BuildSolution ==
  /\ pc = "build"
  /\ Invoke("build")
  /\ \E k \in Outcomes("build") :
       /\ Ran("build", k)
       /\ IF k = "hang"
          THEN /\ Block
               /\ build_metrics' = build_metrics
          ELSE \E out \in (IF k = "launch" THEN {<<>>} ELSE Answers("build_out", BuildOutputs, UsualBuildOutput)) :
                 LET bm == build_solution(k, out)
                     built == IF k = "launch" THEN tree ELSE tree \cup BuildArtifacts(tree) IN
                 /\ build_metrics' = bm
                 /\ IF bm.success
                    THEN Continue("test_llm", 0, built)
                    ELSE Retain(FailedBuildReport(bm), bm, built)
  /\ UNCHANGED <<inputs, pkgCalls, slept, setupvars, llm_results, gt_results, target, copies>>

\* line 56: _parse_test_output on each output of a test run, computed once
TestParses == [o \in TestOutputs |-> _parse_test_output(o)]

\* the handler of line 59 returning an empty result
_run_tests_unreported(k, out) ==
  IF k \in {"ok", "nonzero"} THEN TestParses[out]
  ELSE TestResult(0, 0, 0, 0, None)

\* test._run_tests: check=False; a timeout or a launch failure becomes a
\* failed result
_run_tests(k, out) ==
  IF k \in {"ok", "nonzero"} THEN TestParses[out]
  ELSE TestResult(0, 1, 0, 0, Some(<<"Test execution failed">>))

\* the ground truth tests run whatever was supplied
RunsGtTestsAlways == TRUE

\* line 24-26 of test.py
RunsGtTests == yaml_path # None /\ DirExists(tree, GtTests)

\* run_all_tests up to the ground truth tests; lines 130-140 if there are none
RunLlmTests ==
  /\ pc = "test_llm"
  /\ Invoke("test_llm")
  /\ \E k \in Outcomes("test_llm") :
       /\ Ran("test_llm", k)
       /\ \E out \in (IF k \in {"ok", "nonzero"}
                      THEN Answers("test_llm_out", TestOutputs, <<PassedLine>>) ELSE {<<>>}) :
            LET res == _run_tests(k, out) IN
            /\ llm_results' = Some(res)
            /\ IF RunsGtTests
               THEN Continue("test_gt", 0, tree)
               ELSE Retain(FullReport(Some(res), None), build_metrics, tree)
  /\ UNCHANGED <<inputs, pkgCalls, slept, setupvars, build_metrics, gt_results, target, copies>>

\* the ground truth tests, and lines 130-140
RunGtTests ==
  /\ pc = "test_gt"
  /\ Invoke("test_gt")
  /\ \E k \in Outcomes("test_gt") :
       /\ Ran("test_gt", k)
       /\ \E out \in (IF k \in {"ok", "nonzero"}
                      THEN Answers("test_gt_out", TestOutputs, <<PassedLine>>) ELSE {<<>>}) :
            LET res == _run_tests(k, out) IN
            /\ gt_results' = Some(res)
            /\ Retain(FullReport(llm_results, Some(res)), build_metrics, tree)
  /\ UNCHANGED <<inputs, pkgCalls, slept, setupvars, build_metrics, llm_results, target, copies>>

\* a handler that also drops the path from the report
CopyFailedClearsDir(report) == [report EXCEPT !.solution_dir = None]

\* lines 149-150: a failed copy is logged, the report is left as it is
CopyFailed(report) == report

\* shutil.rmtree of the directory t: it is gone, or the call failed and
\* some of its entries are left.  On the deterministic filesystem the
\* entries of env's stuck cannot be removed.
Rmtree(t) ==
  IF env = None
  THEN {<<"ok", None>>} \cup {<<"rmtree_fails", Some(left)>> : left \in SUBSET t}
  ELSE IF t \cap env[1].stuck = {} THEN {<<"ok", None>>}
       ELSE {<<"rmtree_fails", Some(t \cap env[1].stuck)>>}

\* shutil.copytree of the tree new to an absent directory: done, or failed
\* with nothing or with a part of it written
Copytree(new) ==
  {c[2] : c \in {a \in {<<"ok", <<"ok", Some(new)>>>>,
                         <<"nothing", <<"copytree_fails", None>>>>,
                         <<"part", <<"copytree_fails", Some({<<Lib, Lib \o ".csproj">>})>>>>} :
                   env = None \/ env[1].copytree = a[1]}}

\* lines 145 and 147: the two calls of the copy that may raise
CopyFailures == {"rmtree_fails", "copytree_fails"}

\* lines 142-147 with the copy made only when nothing had to be removed
AfterCopyElse(old, copied) == IF old = None THEN copied ELSE None

\* lines 142-147: an existing directory is removed first and the copy is
\* made whether or not there was one
AfterCopy(old, copied) == copied

\* lines 141-152: rmtree of an existing directory, copytree, and the
\* handler that logs a failure of either
CopySolution ==
  /\ pc = "copy"
  /\ copies' = copies + 1
  /\ \E r \in (IF target = None THEN {<<"ok", None>>} ELSE Rmtree(target[1])) :
       IF r[1] # "ok"
       THEN /\ Ran("copy", r[1])
            /\ target' = r[2]
            /\ Return(CopyFailed(result))
       ELSE \E c \in Copytree(CopyTree(tree)) :
              /\ Ran("copy", c[1])
              /\ IF c[1] = "ok"
                 THEN /\ target' = AfterCopy(target, c[2])
                      /\ Return([result EXCEPT !.solution_dir = TargetPath])
                 ELSE /\ target' = c[2]
                      /\ Return(CopyFailed(result))
  /\ UNCHANGED <<inputs, cmdlog, setupvars, buildvars>>

Next ==
  \/ ValidateStart
  \/ ExtractClassName
  \/ CreateImplementationProject
  \/ RetryCreateImplementationProject
  \/ WriteImplementationCode
  \/ InstallRequiredPackage
  \/ InstallOptionalPackage
  \/ CreateLlmTestProject
  \/ InstallLlmTestPackage
  \/ AddReferenceLlm
  \/ WriteLlmTests
  \/ CreateGroundTruthTests
  \/ InstallGtTestPackage
  \/ AddReferenceGt
  \/ RunMap
  \/ RunReport
  \/ InvokeLlm
  \/ RunGenerator
  \/ CreateSolution
  \/ AddProjectToSolution
  \/ BuildSolution
  \/ RunLlmTests
  \/ RunGtTests
  \/ CopySolution

Spec == Init /\ [][Next]_vars

(***************************************************************************)
(* The parsers and the ground truth summary taken alone: each is applied   *)
(* once to a text or a specification drawn from a bounded set.             *)
(***************************************************************************)
MaxLines == 3
MaxCount == 2

\* the lines of a build output: marked as warning, as error, as both, or not
WarnLine2 == <<"Lib.cs(9,2)", ":", " ", "warning", " ", "CS0219">>
BothLine ==
  <<"Lib.cs(5,1)", ":", " ", "warning", " ", "treated as", ":", " ", "error", " ", "CS0162">>
UnmarkedLine == <<" ", " ", "1", " ", "Warning(s)", ":", "error", " ", ":", " ", "warning">>
WarningLines == {WarnLine, WarnLine2, BothLine}
ErrorLines == {ErrLine, BothLine}
BuildLines == WarningLines \cup ErrorLines \cup {SucceededLine, UnmarkedLine, ElapsedLine}
BuildTexts == UNION {[1..n -> BuildLines] : n \in 0..MaxLines}

\* a summary line of dotnet test: its marker, the order of its fields, the
\* counts, and the duration as "d ms", "< d ms" or "d.5 s"
FieldNames == <<"Failed", "Passed", "Skipped", "Duration">>
Orders == {o \in [1..4 -> 1..4] : \A i, j \in 1..4 : o[i] = o[j] => i = j}
CountValues == {0, 1, 10 + MaxCount}
DurationForms == {<<d, "ms">> : d \in {0, 820}} \cup {<<1, "lt">>, <<1, "s">>}
Shapes ==
  [mark : {PassedMark, FailedMark}, order : Orders, failed : CountValues,
   passed : CountValues, skipped : CountValues, duration : DurationForms]

DurationValue(d) ==
  CASE d[2] = "ms" -> IntToStr(d[1]) \o <<" ", "ms">>
    [] d[2] = "lt" -> <<"<", " ">> \o IntToStr(d[1]) \o <<" ", "ms">>
    [] OTHER -> IntToStr(d[1]) \o <<".", "5", " ", "s">>
FieldOf(shape, name) ==
  CASE name = "Failed" -> Field(name, IntToStr(shape.failed))
    [] name = "Passed" -> Field(name, IntToStr(shape.passed))
    [] name = "Skipped" -> Field(name, IntToStr(shape.skipped))
    [] OTHER -> Field(name, DurationValue(shape.duration))
SummaryLine(shape) ==
  shape.mark \o <<" ">>
    \o Join([i \in 1..4 |-> FieldOf(shape, FieldNames[shape.order[i]])], <<",", " ">>)

\* the lines of a test output other than a well formed summary
FailMark2 == <<" ", " ", "[xUnit.net 00:00:00.52]", " ", "LibTests.Divides", " ", "[FAIL]">>
PlainLine == <<"Test run for LibTests.dll (net8.0)">>
BadCountLine ==
  FailedMark \o <<" ">>
    \o Join(<<Field("Passed", <<"3">>), Field("Failed", <<"n", "/", "a">>),
              Field("Skipped", <<"2">>)>>, <<",", " ">>)
FailLines == {FailMark, FailMark2}
SummaryLines == {PassedLine, BadCountLine}
TestLines == FailLines \cup SummaryLines \cup {PlainLine}
TestTexts == UNION {[1..n -> TestLines] : n \in 0..MaxLines}

\* a summary line alone, indented and followed by the name of the assembly,
\* or between other lines
Around(line, how) ==
  CASE how = 1 -> <<line>>
    [] how = 2 -> <<<<" ", " ">> \o line \o <<" ", "-", " ", "LibTests.dll (net8.0)">>>>
    [] OTHER -> <<PlainLine, FailMark2, line, FailMark>>

\* the specifications and the summaries of the implementation
PureYamlSpecs == UNION {[1..n -> 0..(MaxCount + 1)] : n \in 0..MaxActions}
PureImplMaps ==
  {Summary(s) : s \in PureYamlSpecs}
    \cup {Remove(Summary(s), <<" ">>) : s \in PureYamlSpecs}

PureCalls ==
  {<<"_parse_build_output", t, None>> : t \in BuildTexts}
    \cup {<<"_parse_test_output", t, None>> : t \in TestTexts}
    \cup {<<"_parse_test_output", Around(SummaryLine(sh), how), Some(<<sh, how>>)>> :
             sh \in Shapes, how \in 1..3}
    \cup {<<"validate_action_map", m, <<"yaml", "actions", s>>>> :
             m \in PureImplMaps, s \in PureYamlSpecs}

\* no run is under way
NoRun ==
  /\ yaml_path = None /\ nuget_packages = <<"None">>
  /\ search_term_llm = None /\ target_dir = None /\ retain_on_failure = FALSE
  /\ Entered
  /\ target = None
  /\ env = None
  /\ FirstRun

PureInit == NoRun /\ NoOtherCall /\ NoCaller /\ call \in PureCalls /\ ret = None

Apply(name, value) ==
  /\ call[1] = name /\ ret = None
  /\ ret' = Some(value)
  /\ UNCHANGED <<yaml_path, search_term_llm, nuget_packages, target_dir, retain_on_failure,
                 env, run, before, conc, gv, call, pc, idx, cmdlog, last_call, setupvars, buildvars, tmpExists, tree,
                 target, copies, result>>

ParseBuildOutput == Apply("_parse_build_output", _parse_build_output(call[2]))
ParseTestOutput == Apply("_parse_test_output", _parse_test_output(call[2]))
CompareActionMaps == Apply("validate_action_map", InfoOf(call[2], call[3]))

PureNext ==
  \/ ParseBuildOutput
  \/ ParseTestOutput
  \/ CompareActionMaps

PureSpec == PureInit /\ [][PureNext]_vars

(***************************************************************************)
(* validate_generated_code called twice in sequence with the same          *)
(* arguments, in an environment that is deterministic: every tool, the     *)
(* model and the filesystem give the same answer each time they are asked  *)
(* the same.  One of them at most answers otherwise than usual, and the    *)
(* filesystem may in addition refuse to copy, or to remove entries that    *)
(* were in the target directory before the first run (what a run has       *)
(* written, it can remove).                                                *)
(***************************************************************************)
PkgPoints ==
  {PkgCmd("impl", RequiredPackages[i]) : i \in 1..Len(RequiredPackages)}
    \cup {PkgCmd("impl", PkgStrip(e)) : e \in PkgEntries}
    \cup {PkgCmd("llm", LlmTestPackages[i]) : i \in 1..Len(LlmTestPackages)}
    \cup {PkgCmd("gt", GtTestPackages[i]) : i \in 1..Len(GtTestPackages)}
CmdPoints == (Cmds \ {"llm_invoke"}) \cup {"new_classlib_retry"} \cup PkgPoints
\* what can answer otherwise than usual, and how
Deviations ==
  {d \in CmdPoints \X {"nonzero", "launch", "timeout", "timeout_stderr", "hang"} :
     d[2] \in FullOutcomes(d[1])}
    \cup {<<"classname", "empty">>, <<"write_impl", "oserror">>, <<"write_llm_tests", "oserror">>}
    \cup {<<"impl_map", m>> : m \in ImplMaps}
    \cup {<<"llm_invoke", m>> : m \in LlmReplies \cup {"raise", "not_str", "hang"}}
    \cup {<<"build_out", o>> : o \in BuildOutputs}
    \cup {<<p, o>> : p \in {"test_llm_out", "test_gt_out"}, o \in TestOutputs}

Environments ==
  [dev : Deviations \cup {<<"", "">>}, copytree : {"ok", "nothing", "part"},
   stuck : SUBSET OldTree]

TwiceInit ==
  /\ yaml_path \in {None} \cup {y \in YamlFiles : y[2] = "actions" /\ y[3] \in {<<1>>, <<2>>}}
  /\ nuget_packages = <<"Polly">>
  /\ search_term_llm = Some("model")
  /\ target_dir = Some("out")
  /\ retain_on_failure \in BOOLEAN
  /\ Entered
  /\ target \in {None, Some(OldTree)}
  /\ env \in {Some(e) : e \in Environments}
  /\ NoCall
  /\ FirstRun
  /\ NoOtherCall
  /\ NoCaller

\* the first call is over, with a report or an exception: the caller calls
\* again with the same arguments
Restart ==
  /\ pc \in {"returned", "raised"}
  /\ run = 1
  /\ run' = 2
  /\ before' = Some([pc |-> pc, last_call |-> last_call, report |-> result,
                     target |-> target])
  /\ pc' = "start" /\ idx' = 0
  /\ calls' = [c \in Cmds |-> 0] /\ pkgCalls' = <<>> /\ slept' = 0
  /\ last_call' = <<"", "">>
  /\ failed_packages' = <<>> /\ local_info' = None /\ amr' = Unbound
  /\ odc_raw_output' = EmptyStr /\ action_map_info' = None
  /\ build_metrics' = DefaultBuildMetrics /\ llm_results' = None /\ gt_results' = None
  /\ tmpExists' = FALSE /\ tree' = {} /\ copies' = 0
  /\ result' = ValidationMetrics(DefaultBuildMetrics, None, None, EmptyStr, None, None)
  /\ UNCHANGED <<yaml_path, search_term_llm, nuget_packages, target_dir, retain_on_failure,
                 env, call, ret, conc, gv, target>>

TwiceNext == Next \/ Restart

TwiceSpec == TwiceInit /\ [][TwiceNext]_vars

(***************************************************************************)
(* Two calls of validate_generated_code under way at the same time, on     *)
(* different generated code.  Lines 39-138 of a call work in its own       *)
(* temporary directory and on its own local variables; lines 140-148 read  *)
(* and write the directory target_dir / class_name, which the other call   *)
(* may read and write too.  A call is a record of its arguments, its       *)
(* position and its report; the directories under the target directories   *)
(* are shared, and every step on them is one system call or one batch of   *)
(* them.                                                                   *)
(***************************************************************************)
Callers == {1, 2}
ConcClassNames == {"Lib", "Calc"}
ConcTargetDirs == {"out", "out2"}
SolutionDirs == ConcTargetDirs \X ConcClassNames

\* an entry of a directory: its path and whose code it holds (0: neither's)
OldEntries == {<<<<"Old.cs">>, 0>>}
WorkTree(r, cls) ==
  {<<<<cls, cls \o ".cs">>, r>>, <<<<cls, cls \o ".csproj">>, r>>,
   <<<<cls, "bin", "out.dll">>, r>>, <<<<"LLMGeneratedTests", cls \o "Tests.cs">>, r>>}

\* line 147: what copytree takes of a tree, and a directory after files
\* were written into it
Copied(t) == {e \in t : CopyTree({e[1]}) # {}}
Overwrite(old, new) == {e \in old : \A n \in new : n[1] # e[1]} \cup new

\* line 40, one temporary directory for each call
ConcClassDir(r) == Some(<<"class_dir", r>>)

\* lines 120-126 and 131-138: the report before the solution is retained
ConcReport(l) ==
  IF l.success
  THEN ValidationMetrics(BuildMetrics(<<>>, <<>>, TRUE, 0),
                         Some(TestResult(1, 0, 0, 0, None)), None, EmptyStr,
                         ConcClassDir(l.r), None)
  ELSE ValidationMetrics(BuildMetrics(<<>>, <<ErrLine>>, FALSE, 0), None, None, EmptyStr,
                         IF l.retain_on_failure THEN ConcClassDir(l.r) ELSE None, None)

\* line 142: solution_dir = target_dir / class_name
SolutionDir(l) == <<l.target_dir[1], l.class_name>>

\* one step of a call on the shared directories d; an exception of lines
\* 143-147 is taken by the handler of line 149, which goes on to line 152
Moved(l, at, d) == [l |-> [l EXCEPT !.pc = at], d |-> d]
ConcStep(l, d) ==
  CASE l.pc = "start" ->
         [l |-> [l EXCEPT !.pc = "decide", !.report = ConcReport(l)], d |-> d]
    [] l.pc = "decide" ->
         Moved(l, IF l.target_dir # None /\ (l.success \/ l.retain_on_failure)
                  THEN "exists" ELSE "return", d)
    [] l.pc = "exists" ->
         Moved(l, IF d[SolutionDir(l)] # None THEN "rmtree" ELSE "copytree", d)
    [] l.pc = "rmtree" ->
         IF d[SolutionDir(l)] = None THEN Moved(l, "return", d)
         ELSE Moved(l, "copytree", [d EXCEPT ![SolutionDir(l)] = None])
    [] l.pc = "copytree" ->
         IF d[SolutionDir(l)] # None THEN Moved(l, "return", d)
         ELSE Moved(l, "copy_files", [d EXCEPT ![SolutionDir(l)] = Some({})])
    [] l.pc = "copy_files" ->
         IF d[SolutionDir(l)] = None THEN Moved(l, "return", d)
         ELSE Moved(l, "assign",
                    [d EXCEPT ![SolutionDir(l)] =
                       Some(Overwrite(@[1], Copied(WorkTree(l.r, l.class_name))))])
    [] l.pc = "assign" ->
         [l |-> [l EXCEPT !.pc = "return", !.report.solution_dir = Some(SolutionDir(l))],
          d |-> d]
    [] OTHER -> Moved(l, "done", d)

\* the positions between the first and the last access to the directory
Retaining == {"rmtree", "copytree", "copy_files", "assign"}

ConcInit ==
  /\ NoRun /\ NoCall /\ NoCaller
  /\ \E c2 \in ConcClassNames, t1 \in {None, Some("out")},
        t2 \in {None} \cup {Some(t) : t \in ConcTargetDirs},
        s1, s2, f1, f2, old \in BOOLEAN :
       conc = Some([calls |->
                      <<[r |-> 1, class_name |-> "Lib", target_dir |-> t1, success |-> s1,
                         retain_on_failure |-> f1, pc |-> "start", report |-> None],
                        [r |-> 2, class_name |-> c2, target_dir |-> t2, success |-> s2,
                         retain_on_failure |-> f2, pc |-> "start", report |-> None]>>,
                    disk |-> [p \in SolutionDirs |-> IF old THEN Some(OldEntries) ELSE None],
                    disk0 |-> [p \in SolutionDirs |-> IF old THEN Some(OldEntries) ELSE None],
                    overlap |-> FALSE])

\* call r is at position at
At(r, at) == conc # None /\ conc[1].calls[r].pc = at

\* call r takes the step of its position
Take(r) ==
  /\ conc' = Some([conc[1] EXCEPT
                     !.calls[r] = ConcStep(conc[1].calls[r], conc[1].disk).l,
                     !.disk = ConcStep(conc[1].calls[r], conc[1].disk).d,
                     !.overlap = @ \/ (conc[1].calls[r].pc \in Retaining \cup {"exists"}
                                        /\ \E o \in Callers \ {r} :
                                             conc[1].calls[o].pc \in Retaining)])
  /\ UNCHANGED <<yaml_path, search_term_llm, nuget_packages, target_dir, retain_on_failure,
                 env, run, before, call, ret, gv, pc, idx, cmdlog, last_call, setupvars,
                 buildvars, tmpExists, tree, target, copies, result>>

\* lines 39-138 in the call's own directory
ConcValidate == \E r \in Callers : At(r, "start") /\ Take(r)
\* line 140
ConcDecide == \E r \in Callers : At(r, "decide") /\ Take(r)
\* line 143
ConcExists == \E r \in Callers : At(r, "exists") /\ Take(r)
\* line 145
ConcRmtree == \E r \in Callers : At(r, "rmtree") /\ Take(r)
\* line 147: copytree makes the directory, which must not exist
ConcCopytree == \E r \in Callers : At(r, "copytree") /\ Take(r)
\* line 147: copytree writes the entries
ConcCopyFiles == \E r \in Callers : At(r, "copy_files") /\ Take(r)
\* line 148
ConcAssign == \E r \in Callers : At(r, "assign") /\ Take(r)
\* line 152
ConcReturn == \E r \in Callers : At(r, "return") /\ Take(r)

ConcNext ==
  \/ ConcValidate
  \/ ConcDecide
  \/ ConcExists
  \/ ConcRmtree
  \/ ConcCopytree
  \/ ConcCopyFiles
  \/ ConcAssign
  \/ ConcReturn

ConcurrentSpec == ConcInit /\ [][ConcNext]_vars

(***************************************************************************)
(* generate_and_validate.py: the caller of validate_generated_code.  It    *)
(* generates code, validates it, asks run_reflection_pass for a second     *)
(* generation when the first report calls for one, validates that, and     *)
(* decides what to return.  A validation is a call that returns a report:  *)
(* what it may return and what it leaves under output_dir is taken from    *)
(* workflow.py lines 42-152 with yaml_path None.                           *)
(***************************************************************************)
GvOutputDir == "out"

\* how a validation may end: before the build, with a failed build, or with
\* the tests run (the number of failed LLM tests); and how its copy ends
GvOutcomes ==
  {<<"early", 0, "ok">>}
    \cup {<<"fail", 0, c>> : c \in {"ok"} \cup CopyFailures}
    \cup {<<"ok", f, c>> : f \in {0, 1}, c \in {"ok"} \cup CopyFailures}

\* workflow.py 46-93, 120-126 and 131-138: the report of run r before line 140
GvReport(r, o, retain) ==
  IF o[1] = "early"
  THEN ValidationMetrics(DefaultBuildMetrics, None, None, EmptyStr, None, None)
  ELSE IF o[1] = "ok"
  THEN [ConcReport([r |-> r, success |-> TRUE, retain_on_failure |-> retain])
          EXCEPT !.llm_test_results = Some(TestResult(1 - o[2], o[2], 0, 0, None))]
  ELSE ConcReport([r |-> r, success |-> FALSE, retain_on_failure |-> retain])

\* workflow.py line 140 for the caller's arguments
GvWantsCopy(o, g) ==
  g.output_dir # None /\ o[1] # "early" /\ (o[1] = "ok" \/ g.retain_on_failure)

\* workflow.py 140-152: the report returned by run r on the code of class
\* cls, and the directories under output_dir after it
GvValidation(r, cls, o, g) ==
  LET dir == <<GvOutputDir, cls>>
      pre == GvReport(r, o, g.retain_on_failure) IN
  IF ~GvWantsCopy(o, g) THEN [report |-> pre, disk |-> g.disk]
  ELSE IF o[3] = "rmtree_fails" /\ g.disk[dir] # None
  THEN [report |-> pre, disk |-> g.disk]
  ELSE IF o[3] = "copytree_fails"
  THEN [report |-> pre, disk |-> [g.disk EXCEPT ![dir] = None]]
  ELSE [report |-> [pre EXCEPT !.solution_dir = Some(dir)],
        disk |-> [g.disk EXCEPT ![dir] = Some(Copied(WorkTree(r, cls)))]]

\* run_reflection_pass, lines 123-143, asking again after a failed build only
NeedsReflectionBuildOnly(m) == ~m.build_metrics.success

\* run_reflection_pass, lines 123-143: is a second generation asked for
NeedsReflection(m) ==
  \/ ~m.build_metrics.success
  \/ m.llm_test_results # None /\ m.llm_test_results[1].failed > 0

\* line 95: `or` reads reflection_metrics only when the first build failed
Keeps(g) ==
  IF g.validation_metrics[1].build_metrics.success THEN TRUE
  ELSE IF g.reflection_metrics[1].build_metrics.success THEN TRUE
  ELSE g.retain_on_failure

\* line 129: return validation_metrics.solution_dir
ReturnedDir(g) == g.validation_metrics[1].solution_dir

\* a path names a directory that is there: the working directory of a run
\* is removed when the run returns
GvExists(path, disk) == path[1] \in SolutionDirs /\ disk[path[1]] # None

GvInit ==
  /\ NoRun /\ NoCall /\ NoOtherCall
  /\ \E retain, old, script \in BOOLEAN, out \in {None, Some(GvOutputDir)} :
       gv = Some([pc |-> "generate", retain_on_failure |-> retain, output_dir |-> out,
                  script |-> script,
                  class_name |-> "", generations |-> 0, validations |-> 0,
                  validation_metrics |-> None, reflection_metrics |-> None,
                  disk |-> [p \in SolutionDirs |-> IF old THEN Some(OldEntries) ELSE None],
                  ret |-> None])

GvAt(at) == gv # None /\ gv[1].pc = at
GvTo(g) ==
  /\ gv' = Some(g)
  /\ UNCHANGED <<yaml_path, search_term_llm, nuget_packages, target_dir, retain_on_failure,
                 env, run, before, call, ret, conc, pc, idx, cmdlog, last_call, setupvars,
                 buildvars, tmpExists, tree, target, copies, result>>
GvRaise == GvTo([gv[1] EXCEPT !.pc = "raised"])

\* line 53, generate_code: the code of a class, or the exception of line 98
GvGenerate ==
  /\ GvAt("generate")
  /\ \/ GvTo([gv[1] EXCEPT !.pc = "validate", !.generations = @ + 1, !.class_name = "Lib"])
     \/ GvTo([gv[1] EXCEPT !.pc = "raised", !.generations = @ + 1])

\* lines 62 and 87: validate_generated_code is called
GvValidate ==
  /\ GvAt("validate")
  /\ GvTo([gv[1] EXCEPT !.pc = "validating", !.validations = @ + 1])

\* lines 62-67: the first call returns its report
GvValidated ==
  /\ GvAt("validating") /\ gv[1].validations = 1
  /\ \E o \in GvOutcomes :
       LET v == GvValidation(1, gv[1].class_name, o, gv[1]) IN
       GvTo([gv[1] EXCEPT !.pc = "reflect", !.validation_metrics = Some(v.report),
                          !.disk = v.disk])

\* line 70 and run_reflection_pass, lines 123-152: no second generation, or
\* generate_code_from_prompt returns the code of a class or raises
GvReflect ==
  /\ GvAt("reflect")
  /\ IF ~NeedsReflection(gv[1].validation_metrics[1])
     THEN GvTo([gv[1] EXCEPT !.pc = "decide"])
     ELSE \/ \E c \in ConcClassNames :
               GvTo([gv[1] EXCEPT !.pc = "validate", !.generations = @ + 1, !.class_name = c])
          \/ GvTo([gv[1] EXCEPT !.pc = "raised", !.generations = @ + 1])

\* lines 87-92: the second call returns its report
GvRevalidated ==
  /\ GvAt("validating") /\ gv[1].validations = 2
  /\ \E o \in GvOutcomes :
       LET v == GvValidation(2, gv[1].class_name, o, gv[1]) IN
       GvTo([gv[1] EXCEPT !.pc = "decide", !.reflection_metrics = Some(v.report),
                          !.disk = v.disk])

\* lines 95-129: the solution is kept.  prettify_code takes its own
\* exceptions; shutil.copy2 of line 120 raises when the directory is absent.
\* Line 95 reads reflection_metrics only when the first build failed, and
\* then line 87 has bound it.
GvKeep ==
  /\ GvAt("decide")
  /\ gv[1].validation_metrics[1].build_metrics.success \/ gv[1].reflection_metrics # None
  /\ Keeps(gv[1])
  /\ LET dir == gv[1].validation_metrics[1].solution_dir IN
     IF gv[1].script /\ dir # None
     THEN IF GvExists(dir, gv[1].disk)
          THEN GvTo([gv[1] EXCEPT !.pc = "returned", !.ret = ReturnedDir(gv[1]),
                       !.disk[dir[1]] = Some(Overwrite(@[1],
                           {<<<<dir[1][2], "generate_upload_package.ps1">>, 0>>}))])
          ELSE GvRaise
     ELSE GvTo([gv[1] EXCEPT !.pc = "returned", !.ret = ReturnedDir(gv[1])])

\* lines 130-140: the solution is not kept
GvDiscard ==
  /\ GvAt("decide")
  /\ gv[1].validation_metrics[1].build_metrics.success \/ gv[1].reflection_metrics # None
  /\ ~Keeps(gv[1])
  /\ LET dir == gv[1].validation_metrics[1].solution_dir IN
     GvTo([gv[1] EXCEPT !.pc = "returned", !.ret = None,
             !.disk = IF dir # None /\ GvExists(dir, @)
                      THEN [@ EXCEPT ![dir[1]] = None] ELSE @])

GvNext ==
  \/ GvGenerate
  \/ GvValidate
  \/ GvValidated
  \/ GvReflect
  \/ GvRevalidated
  \/ GvKeep
  \/ GvDiscard

GvSpec == GvInit /\ [][GvNext]_vars

(***************************************************************************)
(* Properties                                                              *)
(***************************************************************************)
Returned == pc = "returned"
TestsInvoked == calls["test_llm"] + calls["test_gt"] > 0
Unattempted(report) ==
  /\ report.build_metrics = DefaultBuildMetrics
  /\ report.llm_test_results = None
  /\ report.ground_truth_test_results = None

\* an ActionMapInfo that disagrees with the ground truth or counts more
\* than one action
Stops(info) ==
  /\ info # None
  /\ \/ ~info[1].matches
     \/ ImplActionCount(info[1].implementation) > 1

\* C1: a report of a run with ground truth whose ActionMapInfo does not
\* match, or counts more than one action, has default build metrics and no
\* test results, and neither the build nor a test command was issued in
\* that run.
C1_NoBuildWithoutVerifiedSurface ==
  (Returned /\ yaml_path # None /\ (Stops(result.action_map_info) \/ Stops(action_map_info)))
    => /\ Unattempted(result)
       /\ calls["build"] = 0
       /\ ~TestsInvoked

\* a report for an implementation that matches the ground truth with two
\* actions, returned after the solution was assembled
C1_Witness ==
  /\ Returned
  /\ result.action_map_info # None
  /\ result.action_map_info[1].matches
  /\ ImplActionCount(result.action_map_info[1].implementation) = 2
  /\ calls["new_sln"] = 1

(***************************************************************************)
(* C2                                                                      *)
(***************************************************************************)
ParsedInfo(info) == _parse_impl_map(info[1].implementation)

\* the validator found a match with one action of more than one parameter
MatchOneActionManyParams ==
  /\ local_info # None
  /\ local_info[1].matches
  /\ ParsedInfo(local_info).num_actions = 1
  /\ ParsedInfo(local_info).param_counts # <<>>
  /\ ParsedInfo(local_info).param_counts[1] > 1

\* the model was asked and its reply is absent or not of the form asked for
ReplyAbsentOrMalformed ==
  /\ calls["llm_invoke"] = 1
  /\ \/ amr.odc_generator_output = Text("msg", "Failed to generate parameter mapping")
     \/ amr.param_mapping # None /\ amr.param_mapping[1] # GoodReply

\* C2: when the maps match with one action of more than one parameter and
\* the correlation reply is absent or malformed, the run stops before the
\* build: neither the ground truth test generator nor the build command is
\* issued, and the report has default build metrics and no test results.
C2_StopsBeforeBuild ==
  (MatchOneActionManyParams /\ ReplyAbsentOrMalformed)
    => /\ calls["generator"] = 0
       /\ calls["build"] = 0
       /\ Returned => Unattempted(result)

(***************************************************************************)
(* C3                                                                      *)
(***************************************************************************)
\* C3: when the build ends without success, the report carries the build
\* metrics of that build, has no test results, no test command was issued,
\* and solution_dir is set exactly if retain_on_failure was requested.
C3_FailedBuildReport ==
  (Returned /\ calls["build"] = 1 /\ ~build_metrics.success)
    => /\ result.build_metrics = build_metrics
       /\ result.llm_test_results = None
       /\ result.ground_truth_test_results = None
       /\ ~TestsInvoked
       /\ (result.solution_dir # None) <=> retain_on_failure

\* a failed build with parsed errors whose tree was retained on request
C3_Witness ==
  /\ Returned
  /\ calls["build"] = 1
  /\ result.build_metrics.errors = <<ErrLine>>
  /\ ~result.build_metrics.success
  /\ retain_on_failure
  /\ result.solution_dir # None

(***************************************************************************)
(* C4                                                                      *)
(***************************************************************************)
\* C4: a test command is issued only after the build of the run ended with
\* success; a report has LLM test results exactly if its build succeeded,
\* and ground truth test results only together with LLM test results.
C4_TestsOnlyAfterSuccessfulBuild ==
  /\ (TestsInvoked \/ pc \in {"test_llm", "test_gt"})
       => (calls["build"] = 1 /\ build_metrics.success)
  /\ Returned =>
       /\ (result.llm_test_results # None) <=> result.build_metrics.success
       /\ (result.ground_truth_test_results # None) => (result.llm_test_results # None)

\* a report with both test results after a successful build
C4_Witness ==
  /\ Returned
  /\ result.build_metrics.success
  /\ result.llm_test_results # None
  /\ result.ground_truth_test_results # None
  /\ calls["test_llm"] = 1 /\ calls["test_gt"] = 1

(***************************************************************************)
(* C5                                                                      *)
(***************************************************************************)
NoArtifact(p) == \A i \in 1..Len(p) : p[i] \notin {"bin", "obj"}

\* C5 as claimed: the copy is made exactly when a target directory is
\* given and (the build succeeded or retain_on_failure was requested).
C5_CopyExactlyWhenRequested ==
  Returned =>
    ((copies = 1) <=> (target_dir # None /\ (build_metrics.success \/ retain_on_failure)))

\* C5: in a run that issued the build command, the copy is made exactly
\* when a target directory is given and (the build succeeded or
\* retain_on_failure was requested); after a successful copy the target
\* holds the working tree without anything named bin or obj, nothing of a
\* prior directory is left, and solution_dir is the target path; in every
\* other run, and in every other step, the target directory is not written.
C5_RetentionAfterBuild ==
  [][ /\ pc' = "returned" =>
           ((copies' = 1) <=>
              (calls'["build"] = 1 /\ target_dir # None
                 /\ (build_metrics'.success \/ retain_on_failure)))
      /\ target' # target => copies' = copies + 1
      /\ copies' = copies + 1 =>
           /\ (last_call' = <<"copy", "ok">>) <=> (result'.solution_dir = TargetPath)
           /\ result'.solution_dir = TargetPath =>
                /\ target' # None
                /\ \A p \in target'[1] : NoArtifact(p) /\ p \in tree
                /\ \A p \in tree : NoArtifact(p) => p \in target'[1]
    ]_vars

\* the tree of a failed build was copied over a prior directory on request
C5_Witness ==
  /\ Returned
  /\ copies = 1
  /\ ~build_metrics.success
  /\ result.solution_dir = TargetPath
  /\ target # None
  /\ <<Lib, Lib \o ".cs">> \in target[1]
  /\ target[1] \cap OldTree = {}

MatchOneActionNotOneParam ==
  /\ local_info # None
  /\ local_info[1].matches
  /\ ParsedInfo(local_info).num_actions = 1
  /\ ParsedInfo(local_info).param_counts # <<>>
  /\ ParsedInfo(local_info).param_counts[1] # 1

C7_NoUnboundedWait == pc # "blocked"

(***************************************************************************)
(* C8                                                                      *)
(***************************************************************************)
ScaffoldCommands == {"new_classlib", "new_xunit_llm", "new_xunit_gt"}

\* C8 as claimed: a run that ends with a timeout or a non-zero exit of a
\* scaffold command has issued that command twice.
C8_EveryScaffoldRetried ==
  \A c \in ScaffoldCommands :
    (Returned /\ last_call[1] = c /\ last_call[2] \in {"timeout", "timeout_stderr", "nonzero"})
      => calls[c] = 2

\* C8: a timeout or non-zero exit of the library scaffold command is
\* followed by one delay and one retry, and the setup fails for it only
\* after the retry failed too; the scaffold commands of the two test
\* projects are issued at most once, and their failure ends the run.
C8_OneRetryForLibraryScaffold ==
  /\ calls["new_classlib"] <= 2 /\ slept <= 1
  /\ calls["new_classlib"] = 2 => slept = 1
  /\ slept = 1 => (calls["new_classlib"] = 2 \/ pc = "new_classlib_retry")
  /\ (calls["new_classlib"] = 1 /\ last_call[1] = "new_classlib"
        /\ last_call[2] \in {"timeout", "timeout_stderr", "nonzero"})
       => (pc = "new_classlib_retry" /\ slept = 1)
  /\ (Returned /\ last_call[1] = "new_classlib"
        /\ last_call[2] \in {"timeout", "timeout_stderr", "nonzero"})
       => calls["new_classlib"] = 2
  /\ \A c \in {"new_xunit_llm", "new_xunit_gt"} :
       /\ calls[c] <= 1
       /\ (last_call = <<c, "nonzero">>) => (Returned /\ Unattempted(result))

\* the retry failed after a first failure: the run ended with a setup error
C8_Witness ==
  /\ Returned
  /\ calls["new_classlib"] = 2
  /\ slept = 1
  /\ last_call = <<"new_classlib", "nonzero">>
  /\ result.odc_generator_output = Text("stderr", "new_classlib")

(***************************************************************************)
(* C9                                                                      *)
(***************************************************************************)
LaterCommands == Cmds \ {"classname", "new_classlib"}

\* C9: when the install command of a mandatory SDK package fails, the run
\* ends there: no later command is issued, the report has default build
\* metrics and no test results, and its odc_generator_output is the error
\* text of that install command (its stderr when it exited non-zero).
C9_RequiredPackageFailureAborts ==
  \A i \in 1..Len(RequiredPackages) :
    LET c == PkgCmd("impl", RequiredPackages[i]) IN
    (last_call[1] = c /\ last_call[2] \in {"nonzero", "launch"})
      => /\ Returned
         /\ pkgCalls = [j \in 1..i |-> PkgCmd("impl", RequiredPackages[j])]
         /\ \A d \in LaterCommands : calls[d] = 0
         /\ Unattempted(result)
         /\ last_call[2] = "nonzero" => result.odc_generator_output = Text("stderr", c)
         /\ last_call[2] = "launch" => result.odc_generator_output = Text("exc", c)

\* the second mandatory package could not be installed
C9_Witness ==
  /\ Returned
  /\ last_call = <<PkgCmd("impl", "CustomCode.Analyzer"), "nonzero">>
  /\ Len(pkgCalls) = 2

(***************************************************************************)
(* C10                                                                     *)
(***************************************************************************)
IsOptionalInstall(c) ==
  \E i \in 1..Len(OptionalPackages(nuget_packages)) :
    c = PkgCmd("impl", OptionalPackages(nuget_packages)[i])

\* C10: a failure of the install command of an optional package does not
\* end the run: the package is recorded as failed and the setup goes on
\* with the next optional package or the test project.
C10_OptionalFailureTolerated ==
  (IsOptionalInstall(last_call[1]) /\ last_call[2] \in {"nonzero", "launch"})
    => /\ pc \in {"install_optional", "new_xunit_llm"}
       /\ failed_packages # <<>>
       /\ PkgCmd("impl", failed_packages[Len(failed_packages)]) = last_call[1]

(***************************************************************************)
(* C11                                                                     *)
(***************************************************************************)
ClassNameFailed == last_call[1] = "classname" /\ last_call[2] # "ok"

\* C11: when class-name resolution fails (tool error, timeout, empty name)
\* the run returns a report with default build metrics, no test results and
\* the diagnostic text in odc_generator_output, and no scaffold, package,
\* build or test command is invoked.
C11_ClassNameFailureReport ==
  ClassNameFailed
    => /\ Returned
       /\ Unattempted(result)
       /\ IsStr(result.odc_generator_output)
       /\ result.odc_generator_output # EmptyStr
       /\ \A c \in Cmds \ {"classname"} : calls[c] = 0
       /\ pkgCalls = <<>>

(***************************************************************************)
(* C12                                                                     *)
(***************************************************************************)
CommandOutcomes == {"ok", "nonzero", "timeout", "timeout_stderr", "launch"}

\* C12: whatever the outcomes of the external commands (exit 0, non-zero
\* exit, timeout, failure to launch) and of the model call, no exception
\* leaves validate_generated_code: the run goes on to its next step or
\* returns a ValidationMetrics report.
C12_NoExceptionEscapes ==
  /\ pc # "raised"
  /\ last_call[2] \in CommandOutcomes \cup LlmReplies \cup {"raise", "not_str"}
       => pc # "blocked"
  /\ pc \notin {"returned", "blocked"} => ENABLED Next
  /\ Returned =>
       DOMAIN result = {"build_metrics", "llm_test_results", "ground_truth_test_results",
                        "odc_generator_output", "solution_dir", "action_map_info"}

\* an exception that is no setup error went through the last handler: the
\* TypeError raised in the handler of a generator timeout
C12_Witness ==
  /\ Returned
  /\ last_call[1] = "generator"
  /\ last_call[2] \in {"timeout", "timeout_stderr"}
  /\ result.odc_generator_output = StrE("TypeError")

(***************************************************************************)
(* C13                                                                     *)
(***************************************************************************)
MandatoryInstalls ==
  {PkgCmd("impl", RequiredPackages[i]) : i \in 1..Len(RequiredPackages)}
    \cup {PkgCmd("llm", LlmTestPackages[i]) : i \in 1..Len(LlmTestPackages)}
    \cup {PkgCmd("gt", GtTestPackages[i]) : i \in 1..Len(GtTestPackages)}

FatalSetupSteps ==
  {"new_classlib", "write_impl", "new_xunit_llm", "new_xunit_gt",
   "add_reference_llm", "add_reference_gt", "write_llm_tests", "new_sln"}
    \cup MandatoryInstalls

\* the run ended because a setup step failed
SetupStepFailed ==
  /\ Returned
  /\ last_call[1] \in FatalSetupSteps
  /\ last_call[2] # "ok"

\* C13: the report of a run that ended with a fatal setup failure carries
\* the diagnostic text of the failed step in odc_generator_output: a
\* string that is not empty.
C13_SetupFailureCarriesDiagnostic ==
  SetupStepFailed
    => /\ IsStr(result.odc_generator_output)
       /\ result.odc_generator_output # EmptyStr

(***************************************************************************)
(* C14                                                                     *)
(***************************************************************************)
\* C14: once validate_generated_code has returned, the working directory
\* of the run no longer exists, on every exit path.
C14_WorkingDirectoryRemoved ==
  /\ Returned => (~tmpExists /\ tree = {})
  /\ (pc \notin {"start", "returned", "raised"}) => tmpExists

\* the run built the solution, ran the tests and failed to copy the tree
C14_Witness ==
  /\ Returned
  /\ ~tmpExists
  /\ calls["test_llm"] = 1
  /\ last_call = <<"copy", "copytree_fails">>

(***************************************************************************)
(* C15                                                                     *)
(***************************************************************************)

\* C15: when copying the working tree to the target directory fails, the
\* run still returns its report, and the report's solution_dir is what it
\* was before the copy.
C15_CopyFailureKeepsReport ==
  [][ (pc = "copy" /\ last_call'[2] \in CopyFailures)
        => /\ pc' = "returned"
           /\ result' = result
           /\ result'.solution_dir = ClassDir
    ]_vars

\* a failed build was to be retained, and removing the old copy failed
C15_Witness ==
  /\ Returned
  /\ last_call = <<"copy", "rmtree_fails">>
  /\ ~build_metrics.success
  /\ result.solution_dir = ClassDir
  /\ result.build_metrics = build_metrics

(***************************************************************************)
(* C16                                                                     *)
(***************************************************************************)
\* C16: the report of a run whose build succeeded has solution_dir set,
\* whatever retain_on_failure and target_dir are.
C16_SuccessfulBuildKeepsDir ==
  (Returned /\ calls["build"] = 1 /\ build_metrics.success)
    => /\ result.build_metrics.success
       /\ result.solution_dir # None
       /\ result.solution_dir = TargetPath => target_dir # None

\* the build succeeded with neither a target directory nor retention asked
C16_Witness ==
  /\ Returned
  /\ result.build_metrics.success
  /\ target_dir = None
  /\ ~retain_on_failure
  /\ result.solution_dir = ClassDir

(***************************************************************************)
(* C17                                                                     *)
(***************************************************************************)
\* C17: when launching or running the build command raises, build_solution
\* returns metrics with success false, duration 0, no warnings and exactly
\* one synthetic error line, and nothing is raised: the run goes on to its
\* report; the build command is issued at most once in a run.
C17_BuildExceptionBecomesMetrics ==
  /\ calls["build"] <= 1
  /\ (last_call = <<"build", "launch">>)
       => /\ ~build_metrics.success
          /\ build_metrics.duration_ms = 0
          /\ build_metrics.warnings = <<>>
          /\ Len(build_metrics.errors) = 1
          /\ pc \in {"copy", "returned"}
          /\ calls["test_llm"] = 0
          /\ Returned => result.build_metrics = build_metrics

\* the build command could not be launched and its metrics were reported
C17_Witness ==
  /\ Returned
  /\ last_call = <<"build", "launch">>
  /\ result.build_metrics.errors = <<"Build encountered an unexpected error">>

(***************************************************************************)
(* C18                                                                     *)
(***************************************************************************)
TestExceptions == {"timeout", "timeout_stderr", "launch"}

FailedRun(res) ==
  /\ res # None
  /\ res[1].failed = 1 /\ res[1].passed = 0 /\ res[1].skipped = 0
  /\ res[1].error_details # None
  /\ Len(res[1].error_details[1]) = 1

\* C18: a test command that times out or cannot be launched gives for its
\* project a result with failed 1, passed 0, skipped 0 and one error detail;
\* nothing is raised, and the ground truth tests are still run after such a
\* failure of the LLM tests.
C18_TestExceptionBecomesResult ==
  /\ (last_call[1] = "test_llm" /\ last_call[2] \in TestExceptions)
       => /\ FailedRun(llm_results)
          /\ pc \in {"test_gt", "copy", "returned"}
          /\ yaml_path # None => pc = "test_gt"
          /\ Returned => result.llm_test_results = llm_results
  /\ (last_call[1] = "test_gt" /\ last_call[2] \in TestExceptions)
       => /\ FailedRun(gt_results)
          /\ pc \in {"copy", "returned"}
          /\ Returned => /\ result.ground_truth_test_results = gt_results
                         /\ result.llm_test_results = llm_results
                         /\ llm_results # None

\* the LLM tests timed out, the ground truth tests ran after them
C18_Witness ==
  /\ Returned
  /\ FailedRun(result.llm_test_results)
  /\ calls["test_gt"] = 1
  /\ result.ground_truth_test_results # None
  /\ ~FailedRun(result.ground_truth_test_results)

(***************************************************************************)
(* C19                                                                     *)
(***************************************************************************)
\* C19: after a successful build the LLM tests are always run; the ground
\* truth tests are run exactly when a ground truth path was supplied and
\* the ground truth project directory exists, and the report has ground
\* truth results in no other case.
C19_WhichTestsRun ==
  [][ /\ (pc = "build" /\ build_metrics'.success) => pc' = "test_llm"
      /\ pc = "test_llm" => (pc' = "test_gt" <=> RunsGtTests)
      /\ pc' = "test_gt" => pc = "test_llm"
      /\ pc' = "returned" =>
           /\ (calls'["build"] = 1 /\ build_metrics'.success)
                => /\ calls'["test_llm"] = 1
                   /\ result'.llm_test_results # None
                   /\ (calls'["test_gt"] = 1) <=> (yaml_path # None)
           /\ (result'.ground_truth_test_results # None) <=> (calls'["test_gt"] = 1)
           /\ calls'["test_gt"] = 1 => (yaml_path # None /\ build_metrics'.success)
    ]_vars

\* both test projects were run after a successful build
C19_Witness ==
  /\ Returned
  /\ result.build_metrics.success
  /\ yaml_path # None
  /\ calls["test_llm"] = 1 /\ calls["test_gt"] = 1
  /\ result.ground_truth_test_results # None

(***************************************************************************)
(* C20                                                                     *)
(***************************************************************************)
ValidationPositions == {"map", "report", "llm_invoke"}
SolutionPositions == {"new_sln", "sln_add"}
ValidationStarted == calls["map"] >= 1
SetupFinished == calls["new_sln"] = 1 /\ pc \notin SolutionPositions

\* C20 as claimed: action-map validation starts only after project setup
\* has finished, and the build command is issued only after action-map
\* validation has returned.
C20_ValidationAfterSetup ==
  /\ ValidationStarted => SetupFinished
  /\ calls["build"] = 1 => pc \notin ValidationPositions

\* C20: action-map validation runs inside project setup: it starts after
\* the library project and both test projects have been created, and it has
\* returned before the solution is created; the build command is issued
\* only after the solution step and the validation have finished, and the
\* test commands only after the build command.
C20_StageOrder ==
  /\ calls["map"] <= 1
  /\ (pc = "map" \/ ValidationStarted)
       => /\ yaml_path # None /\ search_term_llm # None
          /\ calls["new_classlib"] >= 1
          /\ calls["new_xunit_llm"] = 1 /\ calls["add_reference_llm"] = 1
          /\ calls["new_xunit_gt"] = 1 /\ calls["add_reference_gt"] = 1
  /\ pc \in ValidationPositions
       => (calls["generator"] = 0 /\ calls["new_sln"] = 0 /\ calls["build"] = 0)
  /\ (calls["new_sln"] = 1 /\ yaml_path # None)
       => (ValidationStarted /\ pc \notin ValidationPositions)
  /\ (pc = "build" \/ calls["build"] = 1)
       => /\ SetupFinished
          /\ yaml_path # None => ValidationStarted
  /\ (calls["test_llm"] = 1 \/ calls["test_gt"] = 1) => calls["build"] = 1

\* a run with ground truth that went through every stage
C20_Witness ==
  /\ Returned
  /\ ValidationStarted
  /\ calls["new_sln"] = 1
  /\ calls["build"] = 1
  /\ calls["test_gt"] = 1

(***************************************************************************)
(* C21                                                                     *)
(***************************************************************************)
\* C21: when the validator stops the run because the summaries disagree or
\* the implementation has more than one action, the returned report
\* carries the ActionMapInfo that the validator computed.
C21_StopReportCarriesInfo ==
  (Returned /\ Stops(local_info)) => result.action_map_info = local_info

(***************************************************************************)
(* C22                                                                     *)
(***************************************************************************)
EmptyMapSeen == amr.odc_generator_output = Text("msg", "Empty implementation map")

\* C22: when `--map` prints nothing for the implementation file, the
\* validation fails: should_continue is false, neither the report command,
\* the model, the ground truth test generator nor the build command is
\* invoked, and the run's report has default build metrics and no test
\* results.
C22_EmptyMapStops ==
  EmptyMapSeen
    => /\ ~amr.should_continue
       /\ amr.action_map_info = None
       /\ calls["report"] = 0 /\ calls["llm_invoke"] = 0
       /\ calls["generator"] = 0
       /\ calls["build"] = 0
       /\ ~TestsInvoked
       /\ Returned => (Unattempted(result) /\ result.action_map_info = None)

\* the run went on to assemble the solution and returned without a build
C22_Witness ==
  /\ Returned
  /\ EmptyMapSeen
  /\ calls["map"] = 1
  /\ calls["new_sln"] = 1
  /\ result.odc_generator_output = Text("msg", "Empty implementation map")

PlannedInstalls ==
  [i \in 1..Len(RequiredPackages) |-> PkgCmd("impl", RequiredPackages[i])]
    \o [i \in 1..Len(OptionalPackages(nuget_packages)) |->
          PkgCmd("impl", OptionalPackages(nuget_packages)[i])]
    \o [i \in 1..Len(LlmTestPackages) |-> PkgCmd("llm", LlmTestPackages[i])]
    \o [i \in 1..Len(GtTestPackages) |-> PkgCmd("gt", GtTestPackages[i])]

Applied(name) == call # None /\ call[1] = name /\ ret # None

\* the arrangements of a sequence
Rearranged(s) == {[i \in 1..Len(s) |-> s[p[i]]] : p \in Permutations(1..Len(s))}
Ascending(s) == \A i, j \in 1..Len(s) : i <= j => s[i] <= s[j]

\* C25: the ground truth summary is the same for every order in which the
\* actions of the specification are declared, so an implementation summary
\* that lists the same parameter counts in ascending order compares equal.
C25_OrderInsensitive ==
  Applied("validate_action_map") =>
    \A q \in Rearranged(call[3][3]) :
      /\ InfoOf(call[2], <<"yaml", "actions", q>>).ground_truth = ret[1].ground_truth
      /\ (Ascending(q) /\ call[2] = Summary(q)) => ret[1].matches

\* "2(1, 3)" against actions declared with 3 and 1 parameters
C25_Witness ==
  /\ Applied("validate_action_map")
  /\ call[3][3] = <<3, 1>>
  /\ call[2] = <<"2", "(", "1", ",", " ", "3", ")">>
  /\ ret[1].matches

\* C26: the success flag of the build parser is true exactly when the text
\* holds the build-succeeded marker and no error was parsed; with an
\* error-marked line in the text it is false, marker or not.
C26_SuccessIsConjunction ==
  Applied("_parse_build_output") =>
    LET text == call[2]
        marker == \E i \in 1..Len(text) : text[i] = SucceededLine
    IN /\ ret[1].success <=> (marker /\ ret[1].errors = <<>>)
       /\ (\E i \in 1..Len(text) : text[i] \in ErrorLines) => ~ret[1].success

\* the marker and an error in one text
C26_Witness ==
  /\ Applied("_parse_build_output")
  /\ call[2] = <<SucceededLine, ErrLine>>
  /\ ~ret[1].success

\* the members of S among the lines of text, each at its first occurrence
FirstOccurrences(text, S) ==
  LET first == {i \in 1..Len(text) :
                  text[i] \in S /\ \A j \in 1..(i - 1) : text[j] # text[i]}
      at == CHOOSE f \in [1..Cardinality(first) -> first] :
              \A a, b \in 1..Cardinality(first) : a < b => f[a] < f[b]
  IN [k \in 1..Cardinality(first) |-> text[at[k]]]

\* C27: of a build output with N distinct warning-marked and M distinct
\* error-marked lines, repeated anywhere, the build parser returns N
\* warnings and M errors, each once, in the order of first occurrence.
C27_DistinctInOrder ==
  Applied("_parse_build_output") =>
    LET text == call[2]
        lines == {text[i] : i \in 1..Len(text)}
    IN /\ ret[1].warnings = FirstOccurrences(text, WarningLines)
       /\ Len(ret[1].warnings) = Cardinality(lines \cap WarningLines)
       /\ ret[1].errors = FirstOccurrences(text, ErrorLines)
       /\ Len(ret[1].errors) = Cardinality(lines \cap ErrorLines)

\* a warning repeated after another line that is marked both ways
C27_Witness ==
  /\ Applied("_parse_build_output")
  /\ call[2] = <<WarnLine2, BothLine, WarnLine2>>
  /\ ret[1].warnings = <<WarnLine2, BothLine>>
  /\ ret[1].errors = <<BothLine>>

\* C28: a summary line "Passed!  - Failed: f, Passed: p, Skipped: s,
\* Duration: d ms", or one that starts with "Failed!  -", is parsed to
\* passed = p, failed = f, skipped = s and duration_ms = d, in whatever order
\* the fields stand.
C28_SummaryRoundTrip ==
  (Applied("_parse_test_output") /\ call[3] # None /\ call[3][1][1].duration[2] = "ms") =>
    LET shape == call[3][1][1] IN
    /\ ret[1].passed = shape.passed
    /\ ret[1].failed = shape.failed
    /\ ret[1].skipped = shape.skipped
    /\ ret[1].duration_ms = shape.duration[1]

\* the fields in reverse order, with a count of two digits
C28_Witness ==
  /\ Applied("_parse_test_output") /\ call[3] # None
  /\ call[3][1][1].order = <<4, 3, 2, 1>>
  /\ call[3][1][1].mark = PassedMark
  /\ call[3][1][1].duration = <<820, "ms">>
  /\ ret[1].passed = 10 + MaxCount /\ ret[1].failed = 1 /\ ret[1].skipped = 0
  /\ ret[1].duration_ms = 820

\* C29: the test parser always returns a result: zero counts and duration
\* for a text without a summary line, duration 0 and the counts of the line
\* for a duration that is no number, and as error_details every line that
\* holds the failure marker, in the order of the text (none: absent).
C29_ParserTolerates ==
  Applied("_parse_test_output") =>
    LET text == call[2]
        failures == SelectSeq(text, LAMBDA l : l \in FailLines)
        details == [i \in 1..Len(failures) |-> Strip(failures[i])]
    IN /\ DOMAIN ret[1] = DOMAIN TestResult(0, 0, 0, 0, None)
       /\ (call[3] = None /\ \A i \in 1..Len(text) : text[i] \notin SummaryLines)
            => /\ ret[1].passed = 0 /\ ret[1].failed = 0
               /\ ret[1].skipped = 0 /\ ret[1].duration_ms = 0
       /\ (call[3] # None /\ call[3][1][1].duration[2] # "ms")
            => /\ ret[1].duration_ms = 0
               /\ ret[1].passed = call[3][1][1].passed
               /\ ret[1].failed = call[3][1][1].failed
               /\ ret[1].skipped = call[3][1][1].skipped
       /\ ret[1].error_details = (IF details = <<>> THEN None ELSE Some(details))

(***************************************************************************)
(* Two runs in sequence (TwiceSpec).                                       *)
(***************************************************************************)
\* what the claim compares of a report: all but the path of the solution
Compared(report) == [report EXCEPT !.solution_dir = None]

SecondOver == run = 2 /\ pc \in {"returned", "raised"}

\* C24: with deterministic tools, a second run on the same arguments ends
\* as the first one did, with the same build metrics, test results, action
\* map info and diagnostic text, and leaves the target directory as the
\* first run left it.
C24_Idempotent ==
  SecondOver =>
    /\ pc = before[1].pc
    /\ last_call = before[1].last_call
    /\ Compared(result) = Compared(before[1].report)
    /\ target = before[1].target

\* both runs built, ran both test projects and retained the solution: the
\* second removed what the first had put in place of the old directory
C24_Witness ==
  /\ SecondOver /\ pc = "returned"
  /\ result.build_metrics.success
  /\ result.ground_truth_test_results # None
  /\ result.action_map_info # None
  /\ last_call = <<"copy", "ok">>
  /\ before[1].last_call = <<"copy", "ok">>
  /\ OldTree \cap env[1].stuck = {}
  /\ target # None /\ target # Some(OldTree)
  /\ target = before[1].target

(***************************************************************************)
(* Two calls at the same time (ConcurrentSpec).                            *)
(***************************************************************************)
\* a call run from its start to its end with no step of another between
RECURSIVE AloneFrom(_)
AloneFrom(s) == IF s.l.pc = "done" THEN s ELSE AloneFrom(ConcStep(s.l, s.d))
Fresh(l) == [l EXCEPT !.pc = "start", !.report = None]
Both(a, b) ==
  [reports |-> [r \in Callers |-> IF r = a.l.r THEN a.l.report ELSE b.l.report],
   disk |-> b.d]
ThenAlone(a, l) == Both(a, AloneFrom([l |-> Fresh(l), d |-> a.d]))
Sequential(first, second) ==
  ThenAlone(AloneFrom([l |-> Fresh(conc[1].calls[first]), d |-> conc[1].disk0]),
            conc[1].calls[second])

\* the reports of the two calls and the directories they leave
Outcome ==
  [reports |-> [r \in Callers |-> conc[1].calls[r].report], disk |-> conc[1].disk]

BothDone == conc # None /\ \A r \in Callers : conc[1].calls[r].pc = "done"

\* both calls are to retain their solution in the same directory
SamePlace ==
  /\ conc[1].calls[1].target_dir # None
  /\ conc[1].calls[1].target_dir = conc[1].calls[2].target_dir
  /\ conc[1].calls[1].class_name = conc[1].calls[2].class_name

\* C23 for calls that do not retain in the same directory (another
\* target_dir or another class name): under every interleaving of their
\* steps they return the reports and leave the directories that they
\* return and leave when run one after the other, in either order.
C23_NoInterference ==
  (BothDone /\ ~SamePlace) =>
    /\ Outcome = Sequential(1, 2)
    /\ Outcome = Sequential(2, 1)

\* C23: two calls at the same time on different generated code, each in
\* its own temporary directory, return under every interleaving of their
\* steps the reports and leave the retained directories that they return
\* and leave when run one after the other, in one order or the other.
C23_AnyInputs ==
  BothDone => (Outcome = Sequential(1, 2) \/ Outcome = Sequential(2, 1))

\* both calls removed an old directory and retained their solution under
\* the same target directory, each between the steps of the other
C23_Witness ==
  /\ BothDone /\ ~SamePlace
  /\ conc[1].overlap
  /\ conc[1].calls[1].target_dir = conc[1].calls[2].target_dir
  /\ conc[1].disk0[<<"out", "Lib">>] # None
  /\ \A r \in Callers :
       /\ conc[1].calls[r].report.solution_dir = Some(SolutionDir(conc[1].calls[r]))
       /\ conc[1].disk[SolutionDir(conc[1].calls[r])]
            = Some(Copied(WorkTree(r, conc[1].calls[r].class_name)))

(***************************************************************************)
(* C33                                                                     *)
(***************************************************************************)
\* the entries of nuget_packages that name a package to add: trimmed, not
\* empty, and neither "none" nor "moq" whatever the case
NamesPackage(e) == PkgStrip(e) # "" /\ PkgLower(PkgStrip(e)) \notin {"none", "moq"}
RECURSIVE NamedPackages(_)
NamedPackages(entries) ==
  IF entries = <<>> THEN <<>>
  ELSE (IF NamesPackage(Head(entries)) THEN <<PkgCmd("impl", PkgStrip(Head(entries)))>> ELSE <<>>)
         \o NamedPackages(Tail(entries))

\* both mandatory packages of the library project were installed
MandatoryInstalled ==
  /\ Len(pkgCalls) >= Len(RequiredPackages)
  /\ ~(Len(pkgCalls) = Len(RequiredPackages)
         /\ last_call[1] = pkgCalls[Len(pkgCalls)] /\ last_call[2] # "ok")

\* the package-add commands issued in the library project after the
\* mandatory ones
OptionalIssued ==
  SelectSeq(SubSeq(pkgCalls, Len(RequiredPackages) + 1, Len(pkgCalls)),
            LAMBDA c : \E e \in PkgEntries : c = PkgCmd("impl", PkgStrip(e)))

\* C33: no package-add command is issued for an entry of nuget_packages
\* that is empty, "none" or "moq" (trimmed, whatever the case), none at all
\* when the whole list is empty or "none", and in a run that installed both
\* mandatory packages and has returned every other entry got exactly one
\* package-add command, in the order of the list.
C33_OptionalInstalls ==
  /\ \A i \in 1..Len(OptionalIssued) :
       \E e \in PkgEntries : NamesPackage(e) /\ OptionalIssued[i] = PkgCmd("impl", PkgStrip(e))
  /\ (nuget_packages = <<"">> \/ nuget_packages = <<"None">>) => OptionalIssued = <<>>
  /\ (Returned /\ MandatoryInstalled) => OptionalIssued = NamedPackages(nuget_packages)

(***************************************************************************)
(* C34                                                                     *)
(***************************************************************************)
\* the directory that a path of a report names is on disk
OnDisk(dir) ==
  \/ dir = ClassDir /\ tmpExists
  \/ dir = TargetPath /\ target # None

\* C34: when validate_generated_code has returned a report whose
\* solution_dir is set, the directory it names exists.
C34_SolutionDirExists ==
  (Returned /\ result.solution_dir # None) => OnDisk(result.solution_dir)

(* ------------------------------------------------------------------ *)
(* C35: if copying the working tree to the target directory fails, a   *)
(* directory of the same name that was retained there before the run   *)
(* is left unchanged.  workflow.py 143-147 removes the old directory    *)
(* before it copies, so the step that fails has already changed it.     *)
(* ------------------------------------------------------------------ *)
FailedCopyStep == pc = "copy" /\ target # None /\ last_call'[1] = "copy" /\ last_call'[2] \in CopyFailures

C35_FailedCopyKeepsOld == [][FailedCopyStep => target' = target]_vars

(* The part of C35 that holds: a copy that fails never leaves a mixture *)
(* of the old directory and the new tree.                               *)
C35_NoMixture ==
  [][FailedCopyStep => (\/ target' = None
                        \/ target'[1] \subseteq target[1]
                        \/ target'[1] \subseteq CopyTree(tree))]_vars

(* ------------------------------------------------------------------ *)
(* C36: whenever action-map validation produced an ActionMapInfo during *)
(* a run, the report returned for that run carries it, whatever happens *)
(* afterwards (stop signal, build failure, or tests run).  The info is  *)
(* the one create_and_setup_projects handed back to the workflow at     *)
(* line 65.                                                             *)
(* ------------------------------------------------------------------ *)
C36_ReportCarriesInfo ==
  (Returned /\ action_map_info # None) => result.action_map_info = action_map_info

(* The case of C36 that holds: the report of a run whose build          *)
(* succeeded, with or without tests run, carries the info.              *)
C36_CarriedAfterBuild ==
  (Returned /\ action_map_info # None /\ calls["build"] = 1 /\ result.build_metrics.success)
     => result.action_map_info = action_map_info

(* a run whose build failed after the validation had produced an info   *)
C36_BuildFailedAfterInfo ==
  (Returned /\ action_map_info # None /\ calls["build"] = 1 /\ ~result.build_metrics.success)
     => result.action_map_info = action_map_info

(* ------------------------------------------------------------------ *)
(* C37: every report returned before the build stage (class-name       *)
(* failure, setup failure, action-map stop) has solution_dir absent,    *)
(* and the run has not modified the target directory, also when         *)
(* retain_on_failure is true and a target_dir is given.                 *)
(* ------------------------------------------------------------------ *)
BeforeBuild == calls["build"] = 0

C37_EarlyReportsRetainNothing ==
  [][BeforeBuild' => /\ target' = target
                     /\ copies' = 0
                     /\ (pc' = "returned" => result'.solution_dir = None)]_vars

C37_Witness ==
  /\ Returned /\ BeforeBuild
  /\ retain_on_failure /\ target_dir # None /\ target # None
  /\ result.solution_dir = None
  /\ calls["new_classlib"] = 1

(* ------------------------------------------------------------------ *)
(* C38: a run given a ground truth yaml but no model (search_term_llm  *)
(* is None) returns a report without invoking `--map`, the ground       *)
(* truth test generator or the build; the report has action_map_info    *)
(* absent, default build metrics and no test results.                   *)
(* ------------------------------------------------------------------ *)
NoModel == yaml_path # None /\ search_term_llm = None

C38_NoModelNoBuild ==
  NoModel
    => /\ calls["map"] = 0 /\ calls["report"] = 0 /\ calls["llm_invoke"] = 0
       /\ calls["generator"] = 0
       /\ calls["build"] = 0 /\ ~TestsInvoked
       /\ pc # "raised"
       /\ Returned => /\ Unattempted(result)
                      /\ result.action_map_info = None
                      /\ result.solution_dir = None

\* the run reached line 252 without a model and returned
C38_Witness ==
  /\ NoModel /\ Returned
  /\ last_call = <<"add_reference_gt", "ok">>
  /\ Unattempted(result)

(* ------------------------------------------------------------------ *)
(* C39: a failure of the ground truth test generator (non-zero exit,   *)
(* timeout or launch failure) after the validation allowed the run to   *)
(* continue does not abort the run: its output is kept as diagnostic    *)
(* text and the run goes on to assemble the solution and to the build.  *)
(* ------------------------------------------------------------------ *)
GeneratorFails == pc = "generator" /\ last_call'[1] = "generator" /\ last_call'[2] # "ok"

C39_GeneratorFailureTolerated ==
  [][GeneratorFails => /\ pc' = "new_sln"
                       /\ odc_raw_output' # odc_raw_output]_vars

(* The cases of C39 that hold: a non-zero exit and a launch failure.    *)
C39_ExitAndLaunchTolerated ==
  [][(GeneratorFails /\ last_call'[2] \in {"nonzero", "launch"})
        => /\ pc' = "new_sln"
           /\ odc_raw_output' \in {Text("e.stdout+e.stderr", "generator"), StrE("generator")}]_vars

(* ------------------------------------------------------------------ *)
(* C40: a failure to add one project to the solution does not abort    *)
(* the setup: the remaining projects are still added and the run goes   *)
(* on to the decision to build; a failure of the creation of the        *)
(* solution aborts the run with a setup error and the build is not      *)
(* invoked.                                                             *)
(* ------------------------------------------------------------------ *)
Failure == {"nonzero", "launch"}

SlnAddFails ==
  /\ pc = "sln_add"
  /\ last_call'[1] = "sln_add_" \o projects_to_add[idx]
  /\ last_call'[2] \in Failure

NewSlnFails == pc = "new_sln" /\ last_call'[1] = "new_sln" /\ last_call'[2] \in Failure

C40_ProjectFailureTolerated ==
  [][ /\ SlnAddFails
        => IF idx < Len(projects_to_add)
           THEN pc' = "sln_add" /\ idx' = idx + 1
           ELSE IF SkipBuild \/ SkipBuildRaises
           THEN pc' \in {"returned", "raised"} /\ calls'["build"] = 0
           ELSE pc' = "build"
      /\ pc' = "build" => \A i \in 1..Len(projects_to_add) :
                             calls'["sln_add_" \o projects_to_add[i]] = 1
      /\ NewSlnFails
        => /\ pc' = "returned"
           /\ result' = EarlyReport(GetattrStderr("new_sln", last_call'[2]))
           /\ calls'["build"] = 0
           /\ \A i \in 1..Len(projects_to_add) : calls'["sln_add_" \o projects_to_add[i]] = 0
    ]_vars

\* the last project could not be added and the run is about to build
C40_Witness ==
  /\ pc = "build"
  /\ last_call[1] = "sln_add_" \o projects_to_add[Len(projects_to_add)]
  /\ last_call[2] \in Failure
  /\ calls["sln_add_impl"] = 1 /\ calls["build"] = 0

(* ------------------------------------------------------------------ *)
(* C31: the caller performs at most one reflection pass: a second      *)
(* generation and validation happens if and only if the first report    *)
(* has build_metrics.success false or its LLM tests report failed > 0;  *)
(* it starts only after the first validation has returned; there is no  *)
(* third validation.  Checked on every step of generate_and_validate:   *)
(* the counts never pass two, the second generation starts from the     *)
(* returned first report and only when that report calls for it, the    *)
(* second validation follows the second generation, and a call that     *)
(* returned made two validations exactly when the first report called   *)
(* for a second one.                                                     *)
(* ------------------------------------------------------------------ *)
FirstReport == gv[1].validation_metrics

\* the first report has a failed build, or LLM tests that failed
FirstCallsForSecond ==
  \/ FirstReport[1].build_metrics.success = FALSE
  \/ /\ FirstReport[1].llm_test_results # None
     /\ FirstReport[1].llm_test_results[1].failed > 0

C31_OneReflectionPass ==
  [][ /\ gv'[1].generations <= 2 /\ gv'[1].validations <= 2
      /\ gv'[1].validations <= gv'[1].generations
      /\ (gv[1].generations = 1 /\ gv'[1].generations = 2)
           => /\ gv[1].validations = 1 /\ gv[1].pc # "validating"
              /\ FirstReport # None /\ FirstCallsForSecond
      /\ (gv[1].validations = 1 /\ gv'[1].validations = 2)
           => /\ gv[1].generations = 2 /\ gv[1].pc # "validating"
              /\ FirstReport # None /\ FirstCallsForSecond
      /\ (gv[1].pc = "reflect" /\ FirstCallsForSecond)
           => gv'[1].generations = 2
      /\ gv'[1].pc = "returned"
           => (gv'[1].validations = 2 <=> FirstCallsForSecond)
    ]_vars

\* a call that returned after a second validation asked for by failed tests
C31_Witness ==
  /\ GvAt("returned")
  /\ gv[1].validations = 2 /\ gv[1].generations = 2
  /\ FirstReport[1].build_metrics.success
  /\ FirstReport[1].llm_test_results[1].failed > 0

(* ------------------------------------------------------------------ *)
(* C32: generate_and_validate keeps the solution and returns its       *)
(* retained path, not None, whenever the build of the original pass or  *)
(* of the reflection pass succeeded and an output directory was given.  *)
(* ------------------------------------------------------------------ *)
SomeBuildSucceeded ==
  \/ FirstReport # None /\ FirstReport[1].build_metrics.success
  \/ gv[1].reflection_metrics # None /\ gv[1].reflection_metrics[1].build_metrics.success

C32_ReturnsRetainedPath ==
  (GvAt("returned") /\ gv[1].output_dir # None /\ SomeBuildSucceeded)
     => /\ gv[1].ret # None
        /\ GvExists(gv[1].ret, gv[1].disk)

(* The part of C32 that holds: when the first build succeeded and its   *)
(* copy was made, the call returns the path of that copy.               *)
C32_FirstCopyReturned ==
  (GvAt("returned") /\ FirstReport[1].build_metrics.success
     /\ FirstReport[1].solution_dir # None /\ FirstReport[1].solution_dir[1] \in SolutionDirs)
     => gv[1].ret = FirstReport[1].solution_dir

\* the reflection pass built and was copied, and the call returned None
C32_ReflectionOnlyReturnsNone ==
  (GvAt("returned") /\ gv[1].output_dir # None /\ ~FirstReport[1].build_metrics.success
     /\ gv[1].reflection_metrics # None /\ gv[1].reflection_metrics[1].build_metrics.success)
     => gv[1].ret # None

====
